---- MODULE Spec2Model ----
(***************************************************************************)
(* Model of the interactive diagram editor of chartable-production:        *)
(*   - the InteractiveCanvas component (canvas state, pointer gestures,    *)
(*     wheel zoom, debounced auto-save effect),                            *)
(*   - the editor page that owns it (saveCanvasState, clear, AI generation *)
(*     from the toolbar and from the chat panel, createDiagramFromResponse),*)
(*   - the response normalizer of the claude-diagram-generation route,     *)
(*   - the tree layout of createDiagramFromResponse,                       *)
(*   - the ids of the canvas elements,                                     *)
(*   - the routes that change a user's credits (Stripe webhooks,           *)
(*     manual-credit-update, the deduction of a generation).               *)
(* Spec covers the pointer gestures on the canvas, SaveSpec the debounced  *)
(* auto-save, SettleSpec the outcomes of save calls, GenSpec the two entry *)
(* points of AI generation, ZoomSpec the wheel zoom from panned and zoomed *)
(* views, FrameSpec every short run of pointer and wheel events, IdSpec the*)
(* composition of the element ids, PaymentSpec the payment routes one      *)
(* request at a time, CreditSpec generations and top-ups handled           *)
(* concurrently, NormSpec the normalizer (a pure transformation) over a    *)
(* bounded set of replies, LayoutSpec the layout over a bounded set of     *)
(* diagrams, and BranchSpec the placing of one parent's children over a    *)
(* bounded set of leaf weights. Canvas coordinates, the view offset and the*)
(* scale are exact fractions; lengths along x in the layout are integers in*)
(* units of 1/Scale.                                                       *)
(***************************************************************************)
EXTENDS Integers, Sequences, FiniteSets, TLC

\* ------------------------------------------------------------------ bounds
\* Ids issued in one run (node, connection and generated element ids).
MaxIds == 3
\* Pointer positions lie on a grid of (MaxCoord+1) x (MaxCoord+1) points.
MaxCoord == 1
\* Distance between two grid points, in canvas units.
Step == 100
\* Save requests that may be pending at the same time.
MaxInflight == 2
\* Nodes of a diagram returned by an AI generation.
MaxGenNodes == 2
\* Clock ticks that make up one debounce delay.
TicksPerDelay == 2
\* Size of the canvas element on screen (getBoundingClientRect).
ViewportW == 350
ViewportH == 420
\* Entries of the "nodes" array of a reply.
MaxNodesIn == 2
\* Entries of the "connections" array of a reply.
MaxConnsIn == 1
\* Largest number that a connection endpoint may spell out.
MaxNumeric == 9
\* Nodes and connections of a diagram that is laid out.
MaxLayoutNodes == 3
MaxLayoutConns == 3
\* Width of the canvas rectangle in a narrow and in a wide window.
NarrowRect == 250
WideRect == 1200

\* Wheel events handled in one run.
MaxWheel == 2
\* Pointer and wheel events of a run in which they are counted.
MaxEvents == 5
\* Values that a slice of Math.random().toString(36) takes.
MaxRandom == 2
\* Milliseconds of a run in which ids are composed.
MaxNow == 3
\* Ids on the canvas when a node or a connection is added by hand.
MaxLive == 3
\* Connections of a diagram returned by an AI generation, where ids are composed.
MaxGenConns == 2
\* Panning keeps the view offset within MaxPan of the origin.
MaxPan == 100

\* Users in the database.
MaxUsers == 1
\* Requests to the credit routes (webhook deliveries, manual updates,
\* generations) in one run.
MaxCalls == 2
\* A session buys up to MaxPacks times the smallest pack of credits.
MaxPacks == 1
\* A user starts a run with up to MaxOpening times the cost of a generation.
MaxOpening == 1

\* children of one parent, and the leaf weight of each
MaxChildren == 3
MaxWeight == 3
\* the parent's x-centre is a multiple of ParentStep, up to MaxParentSteps of them
ParentStep == 500
MaxParentSteps == 2

\* ------------------------------------------------------- program constants
SaveDelay == 1000
NodeWidth == 150
NodeHeight == 80
HalfNodeWidth == 75
HalfNodeHeight == 40
BelowGap == 60
\* createDiagramFromResponse
LayoutMargin == 100
SideMargins == 200
MinBranchSpacing == 250
BranchUnit == 100
DecisionChildMin == 350
DecisionLeafWidth == 250
DecisionGap == 50
LeafWidth == 200
FewChildMin == 300
ManyChildMin == 220
LevelHeight == 160
DefaultX == 100
LevelTop == 100
Padding == 200
MinCanvas == 2000

\* credit routes
GenerationCost == 2000
CreditPack == 5000

Quantum == SaveDelay \div TicksPerDelay

NoId == 0
NoTimer == -1

Users == 1..MaxUsers
NoUser == 0

Coords == {Step * i : i \in 0..MaxCoord}
Points == Coords \X Coords

\* ------------------------------------------------------------ exact numbers
\* World coordinates, the view offset and the zoom scale are JavaScript numbers
\* that leave the integers as soon as the scale is not 1. They are kept exact,
\* as fractions in lowest terms with a positive denominator.
RECURSIVE GCD(_, _)
GCD(a, b) == IF b = 0 THEN a ELSE GCD(b, a % b)

Abs(n) == IF n < 0 THEN -n ELSE n

Frac(n, d) ==
  LET g == GCD(Abs(n), Abs(d))
      s == IF d < 0 THEN -1 ELSE 1
  IN [num |-> s * (n \div g), den |-> s * (d \div g)]

R(n) == [num |-> n, den |-> 1]

Zero == R(0)
One == R(1)

LCM(a, b) == (a \div GCD(a, b)) * b

\* the numerator of q over the denominator m (a multiple of q.den)
Over(q, m) == q.num * (m \div q.den)

FAdd(p, q) == LET m == LCM(p.den, q.den) IN Frac(Over(p, m) + Over(q, m), m)
FSub(p, q) == LET m == LCM(p.den, q.den) IN Frac(Over(p, m) - Over(q, m), m)
FNeg(p) == [num |-> -p.num, den |-> p.den]
FMul(p, q) ==
  LET a == Frac(p.num, q.den)
      b == Frac(q.num, p.den)
  IN Frac(a.num * b.num, a.den * b.den)
FDiv(p, q) == FMul(p, Frac(q.den, q.num))
FLe(p, q) == LET m == LCM(p.den, q.den) IN Over(p, m) <= Over(q, m)
FLt(p, q) == LET m == LCM(p.den, q.den) IN Over(p, m) < Over(q, m)
FMax(p, q) == IF FLe(p, q) THEN q ELSE p
FMin(p, q) == IF FLe(p, q) THEN p ELSE q

\* handleCanvasWheel: zoomSpeed and the limits of the scale
ZoomSpeed == Frac(1, 20)
MinScale == Frac(1, 10)
MaxScale == R(5)

\* the scales of the editor when a run starts: the initial scale, and the two
\* limits (reached by wheel events with the pointer at the canvas origin, which
\* leave the view offset at 0)
StartScales == {One, MinScale, MaxScale}

VARIABLES
  \* InteractiveCanvas (src/unnamed/part_004)
  elements,            \* canvasState.elements
  isDirty,
  saveTimer,           \* ms elapsed on the pending auto-save timer, or NoTimer
  selectedElement,
  isDraggingCanvas,
  isDraggingElement,
  isDrawingConnection,
  connectionStart,     \* id of the node whose handle started the draw, or NoId
  currentConnection,   \* preview: [active, targetNodeId]
  viewPosition,        \* the view offset, a pair of fractions
  viewPositionStart,
  mousePositionStart,
  scale,               \* the zoom scale, a fraction
  wheelLog,            \* history: the wheel events handled, each with the scale
                       \* and the view offset before and after it
  nextId,              \* next fresh id (Date.now()/Math.random() ids)
  \* editor page (PromptPanel.tsx, lines 259..1545)
  isGenerating,
  isProcessingPrompt,
  isSaving,
  error,
  toolbarReq,          \* pending toolbar generation: "none" | "create" | "improve"
  chatReq,             \* pending chat request: "none" | "flow" | "chat"
  inflightAuto,        \* pending save requests issued by the auto-save timer
  inflightDirect,      \* pending save requests issued by saveCanvasState callers
  lastSent,            \* last snapshot handed to the PATCH request: "none", or whether
                       \* it was taken from the "current" state object or a "stale" one
  \* history
  savesSinceMut,       \* auto-save calls issued since the last marked mutation
  dirtiedInFlight,     \* updateCanvasState ran while an auto-save was pending
  \* claude-diagram-generation route (one request)
  response,            \* the model's reply and the request's prompt flags
  suggestions,         \* the route's `suggestions` value
  normPc,              \* "idle" | "received" | "parsed" | "done"
  \* createDiagramFromResponse: the layout of one diagram
  diagram,             \* nodes, connections and the canvas rectangle's width
  placed,              \* levels, leaf weights, positions and canvas bounds
  layoutPc,            \* "idle" | "ready" | "done", or "children" | "placed"
  \* the placing of one parent's children
  branch,              \* parent position and kind, the children's leaf weights
  spans,               \* the x-centre and the width allotted to each child
  \* credit routes (Stripe webhook, manual-credit-update, claude-diagram-generation)
  wordCountBalance,    \* the stored User.wordCountBalance of every user
  calls,               \* the requests of the run, each with its position in its handler
  ledger,              \* the checkout session of the run; history: the opening
                       \* balances, and how often the session was credited
  \* history
  handled,             \* the pointer and wheel events handled, counted in the
                       \* runs that are cut after MaxEvents of them
  \* the ids of the elements as the code composes them
  now,                 \* Date.now()
  liveIds,             \* the ids of canvasState.elements, in order
  retired              \* history: the ids that a clear or a replace removed

canvasVars == <<elements, isDirty, saveTimer, nextId>>
gestureVars == <<selectedElement, isDraggingCanvas, isDraggingElement,
                 isDrawingConnection, connectionStart, currentConnection>>
viewVars == <<viewPosition, viewPositionStart, mousePositionStart, scale, wheelLog>>
genVars == <<isGenerating, isProcessingPrompt, toolbarReq, chatReq>>
saveVars == <<isSaving, error, inflightAuto, inflightDirect>>
histVars == <<savesSinceMut, dirtiedInFlight, lastSent>>
normVars == <<response, suggestions, normPc>>
layoutVars == <<diagram, placed, layoutPc, branch, spans>>
creditVars == <<wordCountBalance, calls, ledger>>
idVars == <<now, liveIds, retired>>
\* the editor's own variables
clientVars == <<canvasVars, gestureVars, viewVars, genVars, saveVars, histVars>>
\* what the server routes own, the count of handled events and the composed ids
serverVars == <<creditVars, handled, idVars>>
\* what a pointer or wheel handler leaves alone outside the editor
pureKept == <<normVars, layoutVars, creditVars, idVars>>
\* everything but the normalizer and the layout
editorVars == <<clientVars, serverVars>>
\* everything but the editor
pureVars == <<normVars, layoutVars, serverVars>>

\* ------------------------------------------------------------ canvas model

\* a node as addNode builds it: default dimensions and the default text
MkNode(id, x, y) ==
  [type |-> "node", id |-> id, x |-> x, y |-> y,
   width |-> NodeWidth, height |-> NodeHeight, text |-> "New Node",
   sourceId |-> NoId, targetId |-> NoId]

MkConnection(id, s, t) ==
  [type |-> "connection", id |-> id, x |-> Zero, y |-> Zero, sourceId |-> s, targetId |-> t]

NodesOf(els) == SelectSeq(els, LAMBDA e : e.type = "node")

NodeIds(els) == {els[i].id : i \in {j \in 1..Len(els) : els[j].type = "node"}}

ConnectionsOf(els) == SelectSeq(els, LAMBDA e : e.type = "connection")

IsPointInNode(x, y, node) ==
  /\ FLe(node.x, x)
  /\ FLe(x, FAdd(node.x, R(NodeWidth)))
  /\ FLe(node.y, y)
  /\ FLe(y, FAdd(node.y, R(NodeHeight)))

\* Array.prototype.find over the elements: the first match, or NoId.
FindHovered(els, x, y, startId) ==
  LET hits == {i \in 1..Len(els) : /\ els[i].type = "node"
                                   /\ els[i].id # startId
                                   /\ IsPointInNode(x, y, els[i])}
  IN IF hits = {} THEN NoId
     ELSE els[CHOOSE i \in hits : \A j \in hits : i <= j].id

\* the world point under the canvas-local point p with scale s and view offset v
WorldAt(p, s, v) == <<FSub(FDiv(R(p[1]), s), v[1]), FSub(FDiv(R(p[2]), s), v[2])>>

\* screen -> world: (e.clientX - rect.left) / scale - viewPosition.x
ToWorld(p) == WorldAt(p, scale, viewPosition)

\* The auto-save effect (deps canvasState, isDirty, onSave): when a dependency
\* changed the cleanup clears the pending timer and a new one starts if dirty.
RunSaveEffect(depsChanged, dirty, timer) ==
  IF depsChanged THEN (IF dirty THEN 0 ELSE NoTimer) ELSE timer

Min(a, b) == IF a < b THEN a ELSE b

Null == [active |-> FALSE, targetNodeId |-> NoId]

\* ------------------------------------- data of the generation route (route.ts)

\* a property that is absent (undefined) in the parsed JSON
Missing == "undefined"

\* a value read where an array is expected: no array, or the array's entries
NoList == [isArray |-> FALSE, items |-> <<>>]

ListOf(items) == [isArray |-> TRUE, items |-> items]

\* `suggestions` by shape: "undefined" (not yet assigned), "null", "empty" ({}),
\* "analysis", "parseError", "bare" (nodes and connections at top level) or
\* "diagram"; nodes and connections are those of suggestions.diagram
Shaped(shape) == [shape |-> shape, nodes |-> NoList, connections |-> NoList]

WithDiagram(nodes, connections) ==
  [shape |-> "diagram", nodes |-> nodes, connections |-> connections]

NoResponse ==
  [kind |-> "none", diagramMode |-> FALSE, airbnb |-> FALSE,
   nodes |-> NoList, connections |-> NoList]

NoSuggestions == Shaped("undefined")

\* ------------------------------- data of the layout (createDiagramFromResponse)

NoDiagramData == [n |-> 0, decision |-> 0, connections |-> <<>>, width |-> 0]

NoPlacement == [levels |-> <<>>, weights |-> <<>>, xs |-> <<>>, positions |-> <<>>,
                canvasWidth |-> 0, canvasHeight |-> 0]

NoBranch == [parentX |-> 0, isDecision |-> FALSE, weights |-> <<>>]

CanvasInit ==
  /\ elements = <<>>
  /\ isDirty = FALSE
  /\ saveTimer = NoTimer
  /\ selectedElement = NoId
  /\ isDraggingCanvas = FALSE
  /\ isDraggingElement = FALSE
  /\ isDrawingConnection = FALSE
  /\ connectionStart = NoId
  /\ currentConnection = Null
  /\ viewPosition = <<Zero, Zero>>
  /\ viewPositionStart = <<Zero, Zero>>
  /\ mousePositionStart = <<0, 0>>
  /\ scale = One
  /\ wheelLog = <<>>
  /\ nextId = 1
  /\ isGenerating = FALSE
  /\ isProcessingPrompt = FALSE
  /\ isSaving = FALSE
  /\ error = "none"
  /\ toolbarReq = "none"
  /\ chatReq = "none"
  /\ inflightAuto = 0
  /\ inflightDirect = 0
  /\ lastSent = "none"
  /\ savesSinceMut = 0
  /\ dirtiedInFlight = FALSE

\* no reply is being processed by the route
NormIdle ==
  /\ response = NoResponse
  /\ suggestions = NoSuggestions
  /\ normPc = "idle"

\* no diagram is being laid out
LayoutIdle ==
  /\ diagram = NoDiagramData
  /\ placed = NoPlacement
  /\ layoutPc = "idle"
  /\ branch = NoBranch
  /\ spans = <<>>

NoSession == [user |-> NoUser, via |-> "none", status |-> "unpaid", credits |-> 0]

\* no request has reached the credit routes
CreditIdle ==
  /\ wordCountBalance = [u \in Users |-> 0]
  /\ calls = <<>>
  /\ ledger = [session |-> NoSession, opening |-> [u \in Users |-> 0], credited |-> 0]

\* events are not counted
Uncounted == handled = [on |-> FALSE, count |-> 0]

\* no id was composed
IdIdle ==
  /\ now = 0
  /\ liveIds = <<>>
  /\ retired = {}

ServerIdle == CreditIdle /\ Uncounted /\ IdIdle

Init ==
  /\ CanvasInit
  /\ NormIdle
  /\ LayoutIdle
  /\ ServerIdle

\* a snapshot taken from the state object that a setCanvasState call replaces
Aged(sent) == IF sent = "current" THEN "stale" ELSE sent

\* updateCanvasState: setCanvasState(newState); setIsDirty(true); sent is what
\* becomes of lastSent
UpdateCanvasState(newEls, sent) ==
  /\ elements' = newEls
  /\ isDirty' = TRUE
  /\ saveTimer' = RunSaveEffect(TRUE, isDirty', saveTimer)
  /\ savesSinceMut' = 0
  /\ dirtiedInFlight' = (dirtiedInFlight \/ inflightAuto > 0)
  /\ lastSent' = sent

\* a bare setCanvasState(...) of the component: isDirty is not touched
SetCanvasState(newEls) ==
  /\ elements' = newEls
  /\ isDirty' = isDirty
  /\ saveTimer' = RunSaveEffect(TRUE, isDirty, saveTimer)
  /\ savesSinceMut' = 0
  /\ dirtiedInFlight' = dirtiedInFlight
  /\ lastSent' = Aged(lastSent)

\* nodeElements.reduce(...): the first node with the largest bottom edge
LowestNode(nodes) ==
  LET best == CHOOSE i \in 1..Len(nodes) :
                /\ \A j \in 1..Len(nodes) : FLe(nodes[j].y, nodes[i].y)
                /\ \A j \in 1..(i - 1) : FLt(nodes[j].y, nodes[i].y)
  IN nodes[best]

\* one more pointer or wheel event is handled; where events are counted, a run
\* ends after MaxEvents of them
Counted ==
  /\ handled.on => handled.count < MaxEvents
  /\ handled' = IF handled.on THEN [handled EXCEPT !.count = @ + 1] ELSE handled

\* where addNode puts the new node
AddNodePosition(els, x, y) ==
  IF Len(els) = 0
    THEN <<FSub(FDiv(FSub(Frac(ViewportW, 2), R(HalfNodeWidth)), scale), viewPosition[1]),
           FSub(FDiv(FSub(Frac(ViewportH, 3), R(HalfNodeHeight)), scale), viewPosition[2])>>
    ELSE IF Len(NodesOf(els)) > 0 /\ x = Zero /\ y = Zero
      THEN LET low == LowestNode(NodesOf(els))
           IN <<low.x, FAdd(low.y, R(NodeHeight + BelowGap))>>
      ELSE <<x, y>>

AddNode(x, y) ==
  /\ nextId <= MaxIds
  /\ LET pos == AddNodePosition(elements, x, y)
     IN UpdateCanvasState(Append(elements, MkNode(nextId, pos[1], pos[2])), Aged(lastSent))
  /\ nextId' = nextId + 1
  /\ Counted
  /\ UNCHANGED <<gestureVars, viewVars, pureKept, genVars, saveVars>>

\* toolbar "Add Node": addNodeAtCenter (the page's own scale 1 and offset 0)
AddNodeAtCenter == AddNode(Frac(ViewportW, 2), Frac(ViewportH, 2))

\* context menu "Add Node" at the pointer position p:
\* (contextMenuPosition.x - canvasRect.left - viewPosition.x) / scale
ContextMenuAddNode ==
  \E p \in Points : AddNode(FDiv(FSub(R(p[1]), viewPosition[1]), scale),
                            FDiv(FSub(R(p[2]), viewPosition[2]), scale))

\* toolbar "Clear", confirmed: clearCanvas -> setCanvasState(emptyState)
ClearCanvas ==
  /\ UpdateCanvasState(<<>>, Aged(lastSent))
  /\ UNCHANGED <<nextId, gestureVars, viewVars, pureVars, genVars, saveVars>>

\* mouse-down on a node body: handleElementMouseDown
ElementMouseDown ==
  \E id \in NodeIds(elements) :
    /\ selectedElement' = id
    /\ isDraggingElement' = TRUE
    /\ Counted
    /\ UNCHANGED <<isDraggingCanvas, isDrawingConnection, connectionStart,
                   currentConnection, canvasVars, viewVars, pureKept, genVars, saveVars, histVars>>

\* mouse-down on one of the three connection handles of a node
HandleMouseDown ==
  \E id \in NodeIds(elements) :
    /\ isDrawingConnection' = TRUE
    /\ connectionStart' = id
    /\ Counted
    /\ UNCHANGED <<selectedElement, isDraggingCanvas, isDraggingElement,
                   currentConnection, canvasVars, viewVars, pureKept, genVars, saveVars, histVars>>

\* handleCanvasMouseDown with the left button at canvas point p: a press that
\* reaches the canvas handler (node bodies and handles stop the propagation)
CanvasMouseDown ==
  \E p \in Points :
    LET w == ToWorld(p)
        clickedNode == FindHovered(elements, w[1], w[2], NoId)
    IN /\ IF clickedNode # NoId
            THEN /\ selectedElement' = clickedNode
                 /\ isDraggingElement' = TRUE
                 /\ UNCHANGED <<isDraggingCanvas, viewVars>>
            ELSE /\ selectedElement' = NoId
                 /\ isDraggingCanvas' = TRUE
                 /\ viewPositionStart' = viewPosition
                 /\ mousePositionStart' = p
                 /\ UNCHANGED <<isDraggingElement, viewPosition, scale, wheelLog>>
       /\ Counted
       /\ UNCHANGED <<isDrawingConnection, connectionStart, currentConnection,
                      canvasVars, pureKept, genVars, saveVars, histVars>>

\* the view offset while panning: pressed at `from` with offset `start`, now at p
PannedView(start, from, p, s) ==
  <<FSub(start[1], FDiv(R(from[1] - p[1]), s)),
    FSub(start[2], FDiv(R(from[2] - p[2]), s))>>

\* the view offsets that panning may reach in a run
InPanRange(v) ==
  \A i \in 1..2 : FLe(R(-MaxPan), v[i]) /\ FLe(v[i], R(MaxPan))

\* Math.max(0.1, Math.min(5, scale + (scale * delta)))
ZoomedScale(s, delta) == FMax(MinScale, FMin(MaxScale, FAdd(s, FMul(s, delta))))

\* the view offset that handleCanvasWheel computes for the pointer at p
ZoomedView(p, s, v, newScale) ==
  LET mouseCanvas == WorldAt(p, s, v)
  IN <<FNeg(FSub(FDiv(R(p[1]), newScale), mouseCanvas[1])),
       FNeg(FSub(FDiv(R(p[2]), newScale), mouseCanvas[2]))>>

\* handleCanvasWheel with the pointer at canvas point p; deltaY > 0 zooms out
CanvasWheel ==
  /\ Len(wheelLog) < MaxWheel
  /\ \E p \in Points : \E deltaY \in {-1, 1} :
       LET delta == IF deltaY > 0 THEN FNeg(ZoomSpeed) ELSE ZoomSpeed
           newScale == ZoomedScale(scale, delta)
           newViewPosition == ZoomedView(p, scale, viewPosition, newScale)
       IN /\ scale' = newScale
          /\ viewPosition' = newViewPosition
          /\ wheelLog' = Append(wheelLog,
                            [point |-> p, deltaY |-> deltaY, scale |-> scale,
                             viewPosition |-> viewPosition, newScale |-> newScale,
                             newViewPosition |-> newViewPosition])
  /\ Counted
  /\ UNCHANGED <<viewPositionStart, mousePositionStart, canvasVars, gestureVars,
                 pureKept, genVars, saveVars, histVars>>

\* variant: the map of the drag without its test of the id
MoveEvery(els, id, x, y) ==
  [i \in 1..Len(els) |-> [els[i] EXCEPT !.x = x, !.y = y]]

\* the map of the drag: { ...el, x, y } for the element with the id
MoveNode(els, id, x, y) ==
  [i \in 1..Len(els) |-> IF els[i].id = id
                           THEN [els[i] EXCEPT !.x = x, !.y = y]
                           ELSE els[i]]

\* handleCanvasMouseMove with the pointer at grid point p
CanvasMouseMove ==
  \E p \in Points :
    LET w == ToWorld(p) IN
    /\ Counted
    /\ IF isDraggingElement /\ selectedElement # NoId
         THEN /\ IF selectedElement \in NodeIds(elements)
                   THEN SetCanvasState(MoveNode(elements, selectedElement, w[1], w[2]))
                   ELSE UNCHANGED <<elements, isDirty, saveTimer, histVars>>
              /\ UNCHANGED <<nextId, gestureVars, viewVars, pureKept, genVars, saveVars>>
         ELSE IF isDraggingCanvas
           THEN /\ viewPosition' = PannedView(viewPositionStart, mousePositionStart, p, scale)
                /\ InPanRange(viewPosition')
                /\ UNCHANGED <<viewPositionStart, mousePositionStart, scale, wheelLog,
                               canvasVars, pureKept,
                               gestureVars, genVars, saveVars, histVars>>
           ELSE IF isDrawingConnection
             THEN /\ currentConnection' =
                       [active |-> TRUE,
                        targetNodeId |-> FindHovered(elements, w[1], w[2], connectionStart)]
                  /\ UNCHANGED <<selectedElement, isDraggingCanvas, isDraggingElement,
                                 isDrawingConnection, connectionStart, canvasVars,
                                 viewVars, pureKept, genVars, saveVars, histVars>>
             ELSE UNCHANGED <<canvasVars, gestureVars, viewVars, pureKept, genVars, saveVars, histVars>>

\* handleCanvasMouseUp
CanvasMouseUp ==
  /\ IF isDrawingConnection /\ connectionStart # NoId /\ currentConnection.active
       THEN /\ IF currentConnection.targetNodeId # NoId
                 THEN /\ nextId <= MaxIds
                      /\ UpdateCanvasState(Append(elements,
                           MkConnection(nextId, connectionStart,
                                        currentConnection.targetNodeId)),
                           Aged(lastSent))
                      /\ nextId' = nextId + 1
                 ELSE UNCHANGED <<canvasVars, histVars>>
            /\ isDrawingConnection' = FALSE
            /\ currentConnection' = Null
       ELSE UNCHANGED <<canvasVars, histVars, isDrawingConnection, currentConnection>>
  /\ isDraggingCanvas' = FALSE
  /\ isDraggingElement' = FALSE
  /\ Counted
  /\ UNCHANGED <<selectedElement, connectionStart, viewVars, pureKept, genVars, saveVars>>

\* ------------------------------------------------------------ editor page

\* Every state change of the page re-renders it and hands the canvas a new
\* onSave function (an inline arrow function), so the auto-save effect runs again.
PageRender ==
  /\ isDirty' = isDirty
  /\ saveTimer' = RunSaveEffect(TRUE, isDirty, saveTimer)

CanIssueSave == inflightAuto + inflightDirect < MaxInflight

\* the timer callback of the auto-save effect: await onSave(JSON.stringify(canvasState)),
\* up to the fetch inside saveCanvasState
FireSaveTimer ==
  /\ saveTimer # NoTimer
  /\ saveTimer >= SaveDelay
  /\ CanIssueSave
  /\ lastSent' = "current"
  /\ inflightAuto' = inflightAuto + 1
  /\ isSaving' = TRUE
  /\ PageRender
  /\ savesSinceMut' = Min(savesSinceMut + 1, 2)
  /\ dirtiedInFlight' = FALSE
  /\ UNCHANGED <<elements, nextId, error, inflightDirect, gestureVars, viewVars, pureVars, genVars>>

\* the PATCH of an auto-save returns: saveCanvasState's finally, then the timer
\* callback resumes after its await with setIsDirty(false)
AutoSaveSettles(err) ==
  /\ inflightAuto > 0
  /\ inflightAuto' = inflightAuto - 1
  /\ isSaving' = FALSE
  /\ error' = err
  /\ isDirty' = FALSE
  /\ saveTimer' = RunSaveEffect(TRUE, FALSE, saveTimer)
  /\ UNCHANGED <<elements, nextId, inflightDirect, gestureVars, viewVars, pureVars,
                 genVars, histVars>>

AutoSaveReturns == AutoSaveSettles(error)

\* variant: saveCanvasState lets the failure through to the timer callback, whose
\* catch skips setIsDirty(false)
AutoSaveThrows ==
  /\ inflightAuto > 0
  /\ inflightAuto' = inflightAuto - 1
  /\ isSaving' = FALSE
  /\ error' = "save"
  /\ PageRender
  /\ UNCHANGED <<elements, nextId, inflightDirect, gestureVars, viewVars, pureVars,
                 genVars, histVars>>

\* the PATCH fails (network error or non-2xx): catch -> setError
AutoSaveFails == AutoSaveSettles("save")

\* saveCanvasState called outside the timer, up to its fetch
SaveCanvasState ==
  /\ inflightDirect' = inflightDirect + 1
  /\ isSaving' = TRUE
  /\ UNCHANGED <<error, inflightAuto>>

\* header "Save" button (disabled while isSaving)
ManualSave ==
  /\ ~isSaving
  /\ CanIssueSave
  /\ SaveCanvasState
  /\ lastSent' = "current"
  /\ PageRender
  /\ UNCHANGED <<elements, nextId, gestureVars, viewVars, pureVars, genVars, savesSinceMut,
                 dirtiedInFlight>>

DirectSaveSettles(err) ==
  /\ inflightDirect > 0
  /\ inflightDirect' = inflightDirect - 1
  /\ isSaving' = FALSE
  /\ error' = err
  /\ PageRender
  /\ UNCHANGED <<elements, nextId, inflightAuto, gestureVars, viewVars, pureVars,
                 genVars, histVars>>

DirectSaveReturns == DirectSaveSettles(error)

DirectSaveFails == DirectSaveSettles("save")

\* A diagram as the generation route returns it: n nodes node1..noden and
\* connections between node indices; index n+1 stands for an id that names no node.
GenConns(n) == {<<>>, <<<<1, 2>>>>, <<<<1, n + 1>>>>}

GenDiagrams ==
  UNION {{[n |-> n, conns |-> c] : c \in GenConns(n)} : n \in 1..MaxGenNodes}

\* connections whose two ends are found in createDiagramFromResponse's nodeIdMap
Resolved(d) ==
  SelectSeq(d.conns, LAMBDA c : c[1] \in 1..d.n /\ c[2] \in 1..d.n)

\* createDiagramFromResponse for a response that carries diagram d, laid out at pos:
\* setCanvasState through the ref, then saveCanvasState() before the canvas has
\* re-rendered, so the request carries the state object that was just replaced
CreateDiagram(d, pos) ==
  LET conns == Resolved(d)
      nodeEls == [i \in 1..d.n |-> MkNode(nextId + i - 1, R(pos[i][1]), R(pos[i][2]))]
      connEls == [j \in 1..Len(conns) |->
                    MkConnection(nextId + d.n + j - 1,
                                 nextId + conns[j][1] - 1,
                                 nextId + conns[j][2] - 1)]
  IN /\ nextId + d.n + Len(conns) - 1 <= MaxIds
     /\ CanIssueSave
     /\ UpdateCanvasState(nodeEls \o connEls, "stale")
     /\ nextId' = nextId + d.n + Len(conns)
     /\ SaveCanvasState

\* a response without diagram data, or one that is only shown: a chat message
NoDiagram ==
  /\ PageRender
  /\ UNCHANGED <<elements, nextId, saveVars, histVars>>

CreateDiagramFromResponse ==
  \/ NoDiagram
  \/ \E d \in GenDiagrams : \E pos \in [1..d.n -> Points] : CreateDiagram(d, pos)

\* toolbar "Generate with Claude" (disabled while isGenerating); on an empty
\* canvas window.prompt asks for a topic and may be cancelled
GenerateDiagramWithClaude ==
  /\ ~isGenerating
  /\ toolbarReq = "none"
  /\ IF Len(elements) = 0
       THEN \E typed \in BOOLEAN :
              /\ toolbarReq' = (IF typed THEN "create" ELSE "none")
              /\ isGenerating' = typed
       ELSE /\ toolbarReq' = "improve"
            /\ isGenerating' = TRUE
  /\ error' = "none"
  /\ PageRender
  /\ UNCHANGED <<elements, nextId, isProcessingPrompt, chatReq, isSaving,
                 inflightAuto, inflightDirect, gestureVars, viewVars, pureVars, histVars>>

\* the toolbar's generation request returns with a 2xx response
ToolbarResponse ==
  /\ toolbarReq # "none"
  /\ toolbarReq' = "none"
  /\ isGenerating' = FALSE
  /\ IF toolbarReq = "create" THEN CreateDiagramFromResponse ELSE NoDiagram
  /\ UNCHANGED <<isProcessingPrompt, chatReq, gestureVars, viewVars, pureVars>>

\* the toolbar's generation request fails
ToolbarFails ==
  /\ toolbarReq # "none"
  /\ toolbarReq' = "none"
  /\ isGenerating' = FALSE
  /\ error' = "generate"
  /\ PageRender
  /\ UNCHANGED <<elements, nextId, isSaving, inflightAuto, inflightDirect, histVars,
                 isProcessingPrompt, chatReq, gestureVars, viewVars, pureVars>>

\* chat panel submit (PromptPanel.handleSubmit returns while its isGenerating
\* prop, the page's isProcessingPrompt, is set)
HandlePromptSubmit ==
  /\ ~isProcessingPrompt
  /\ chatReq = "none"
  /\ \E isFlowchartRequest \in BOOLEAN :
       chatReq' = (IF isFlowchartRequest THEN "flow" ELSE "chat")
  /\ isProcessingPrompt' = TRUE
  /\ PageRender
  /\ UNCHANGED <<elements, nextId, isGenerating, toolbarReq, saveVars,
                 gestureVars, viewVars, pureVars, histVars>>

\* the chat request returns with a 2xx response
ChatResponse ==
  /\ chatReq # "none"
  /\ chatReq' = "none"
  /\ isProcessingPrompt' = FALSE
  /\ IF chatReq = "flow" THEN CreateDiagramFromResponse ELSE NoDiagram
  /\ UNCHANGED <<isGenerating, toolbarReq, gestureVars, viewVars, pureVars>>

\* the chat request fails
ChatFails ==
  /\ chatReq # "none"
  /\ chatReq' = "none"
  /\ isProcessingPrompt' = FALSE
  /\ error' = "prompt"
  /\ PageRender
  /\ UNCHANGED <<elements, nextId, isSaving, inflightAuto, inflightDirect, histVars,
                 isGenerating, toolbarReq, gestureVars, viewVars, pureVars>>

\* time passes by one quantum; a due timer fires first
Tick ==
  /\ saveTimer # NoTimer
  /\ saveTimer < SaveDelay
  /\ saveTimer' = saveTimer + Quantum
  /\ UNCHANGED <<elements, isDirty, nextId, gestureVars, viewVars, pureVars, genVars,
                 saveVars, histVars>>

vars == <<editorVars, normVars, layoutVars>>

\* Pointer gestures, node creation, clear and chat generation (no clock).
Next ==
  \/ AddNodeAtCenter
  \/ ContextMenuAddNode
  \/ ClearCanvas
  \/ ElementMouseDown
  \/ HandleMouseDown
  \/ CanvasMouseMove
  \/ CanvasMouseUp
  \/ HandlePromptSubmit
  \/ ChatResponse
  \/ DirectSaveReturns

Spec == Init /\ [][Next]_vars

\* The debounced auto-save under mutations, page re-renders and the clock.
SaveNext ==
  \/ AddNodeAtCenter
  \/ ClearCanvas
  \/ ElementMouseDown
  \/ CanvasMouseMove
  \/ CanvasMouseUp
  \/ HandlePromptSubmit
  \/ ChatResponse
  \/ ManualSave
  \/ FireSaveTimer
  \/ AutoSaveReturns
  \/ AutoSaveFails
  \/ DirectSaveReturns
  \/ DirectSaveFails
  \/ Tick

SaveSpec == Init /\ [][SaveNext]_vars

\* Save calls of the timer and of the Save button, and how they settle, under
\* node creation and clearing alone.
SettleNext ==
  \/ AddNodeAtCenter
  \/ ClearCanvas
  \/ ManualSave
  \/ FireSaveTimer
  \/ AutoSaveReturns
  \/ AutoSaveFails
  \/ DirectSaveReturns
  \/ DirectSaveFails
  \/ Tick

SettleSpec == Init /\ [][SettleNext]_vars

\* The two entry points of AI generation.
GenNext ==
  \/ AddNodeAtCenter
  \/ ClearCanvas
  \/ GenerateDiagramWithClaude
  \/ ToolbarResponse
  \/ ToolbarFails
  \/ HandlePromptSubmit
  \/ ChatResponse
  \/ ChatFails
  \/ DirectSaveReturns
  \/ DirectSaveFails

GenSpec == Init /\ [][GenNext]_vars

\* Wheel zooming, and the first node of a canvas. A run starts on an empty
\* canvas at one of the start scales, after one pan gesture (pressed at `from`,
\* released at `to`).
ZoomInit ==
  /\ \E s \in StartScales : \E from \in Points : \E to \in Points :
       /\ elements = <<>>
       /\ isDirty = FALSE
       /\ saveTimer = NoTimer
       /\ selectedElement = NoId
       /\ isDraggingCanvas = FALSE
       /\ isDraggingElement = FALSE
       /\ isDrawingConnection = FALSE
       /\ connectionStart = NoId
       /\ currentConnection = Null
       /\ viewPosition = PannedView(<<Zero, Zero>>, from, to, s)
       /\ viewPositionStart = <<Zero, Zero>>
       /\ mousePositionStart = from
       /\ scale = s
       /\ wheelLog = <<>>
       /\ nextId = 1
       /\ isGenerating = FALSE
       /\ isProcessingPrompt = FALSE
       /\ isSaving = FALSE
       /\ error = "none"
       /\ toolbarReq = "none"
       /\ chatReq = "none"
       /\ inflightAuto = 0
       /\ inflightDirect = 0
       /\ lastSent = "none"
       /\ savesSinceMut = 0
       /\ dirtiedInFlight = FALSE
  /\ NormIdle
  /\ LayoutIdle
  /\ ServerIdle

\* addNode on a canvas without elements
AddFirstNode == Len(elements) = 0 /\ AddNodeAtCenter

ZoomNext ==
  \/ CanvasWheel
  \/ AddFirstNode

ZoomSpec == ZoomInit /\ [][ZoomNext]_vars

\* Every run of at most MaxEvents pointer and wheel events on the canvas:
\* adding nodes, dragging, drawing connections, panning and zooming.
FrameInit ==
  /\ CanvasInit
  /\ NormIdle
  /\ LayoutIdle
  /\ CreditIdle
  /\ IdIdle
  /\ handled = [on |-> TRUE, count |-> 0]

FrameNext ==
  \/ AddNodeAtCenter
  \/ ElementMouseDown
  \/ HandleMouseDown
  \/ CanvasMouseDown
  \/ CanvasMouseMove
  \/ CanvasMouseUp
  \/ CanvasWheel

FrameSpec == FrameInit /\ [][FrameNext]_vars

\* ------------------------------------------------------------- element ids
\* The canvas model above numbers its elements with nextId. The code composes
\* an id from a prefix, Date.now() and a slice of Math.random().toString(36),
\* the generated nodes also from their index in the reply; nothing compares a
\* new id with the ids in use. Here the ids are composed as the code does it.
\* Each user event comes at least one millisecond after the one before; the
\* ids of one generated diagram are built in one synchronous loop, of which
\* any number of steps can fall in the same millisecond.

\* the values of a slice of Math.random().toString(36)
Randoms == 1..MaxRandom

NoIndex == 0

\* `node-${Date.now()}-${random}`
NodeId(t, r) == [prefix |-> "node", time |-> t, index |-> NoIndex, random |-> r]

\* `connection-${Date.now()}-${random}`
ConnectionId(t, r) == [prefix |-> "connection", time |-> t, index |-> NoIndex, random |-> r]

\* `element-${Date.now()}-${i}-${random}`
ElementId(t, i, r) == [prefix |-> "element", time |-> t, index |-> i, random |-> r]

IdsOf(list) == {list[i] : i \in 1..Len(list)}

NodeIdsIn(list) == {id \in IdsOf(list) : id.prefix \in {"node", "element"}}

\* the event took its millisecond
TimePasses ==
  /\ now < MaxNow
  /\ now' = now + 1

IdKept == UNCHANGED <<clientVars, normVars, layoutVars, creditVars, handled>>

\* addNode: the id of the new node
IssueNodeId ==
  /\ Len(liveIds) < MaxLive
  /\ \E r \in Randoms : liveIds' = Append(liveIds, NodeId(now, r))
  /\ TimePasses
  /\ UNCHANGED retired
  /\ IdKept

\* handleCanvasMouseUp over a node other than the one the draw started from:
\* the id of the new connection
IssueConnectionId ==
  /\ Len(liveIds) < MaxLive
  /\ Cardinality(NodeIdsIn(liveIds)) >= 2
  /\ \E r \in Randoms : liveIds' = Append(liveIds, ConnectionId(now, r))
  /\ TimePasses
  /\ UNCHANGED retired
  /\ IdKept

\* createDiagramFromResponse with n nodes and m connections between them: the
\* ids of the elements that replace the canvas state
IssueDiagramIds ==
  /\ \E n \in 1..MaxGenNodes : \E m \in 0..MaxGenConns :
       \E nr \in [1..n -> Randoms] : \E cr \in [1..m -> Randoms] :
         liveIds' = [i \in 1..n |-> ElementId(now, i - 1, nr[i])]
                  \o [j \in 1..m |-> ConnectionId(now, cr[j])]
  /\ retired' = retired \cup IdsOf(liveIds)
  /\ TimePasses
  /\ IdKept

\* toolbar "Clear", confirmed
RetireIds ==
  /\ liveIds # <<>>
  /\ liveIds' = <<>>
  /\ retired' = retired \cup IdsOf(liveIds)
  /\ TimePasses
  /\ IdKept

IdInit ==
  /\ CanvasInit
  /\ NormIdle
  /\ LayoutIdle
  /\ ServerIdle

IdNext ==
  \/ IssueNodeId
  \/ IssueConnectionId
  \/ IssueDiagramIds
  \/ RetireIds

IdSpec == IdInit /\ [][IdNext]_vars

\* ------------------------------------------------------------ credit routes
\* The stored balance is the wordCountBalance field of the user documents. A
\* handler is a sequence of database operations with an await between them;
\* each operation is one step. findById / findOne hand the handler a copy of
\* the document, updateOne / findByIdAndUpdate with $inc add to the stored
\* field, and save() of a document whose wordCountBalance was assigned stores
\* the assigned value ($set).

\* the credits a session can buy
Packs == {CreditPack * k : k \in 1..MaxPacks}

\* the value of session.payment_status
PaymentStatuses == {"paid", "no_payment_required", "unpaid"}

\* A checkout session: the user that the first successful lookup of the
\* webhook finds and the key that finds it ("userId", "clerkId", "customer"),
\* or no user at all; its payment status and its credits.
Sessions ==
  [user : Users, via : {"userId", "clerkId", "customer"},
   status : PaymentStatuses, credits : Packs]
  \cup [user : {NoUser}, via : {"none"}, status : PaymentStatuses, credits : Packs]

OpeningBalances == {GenerationCost * k : k \in 0..MaxOpening}

\* the routes: the webhook handler with updateOne and save (part_000), the
\* webhook handler of api/stripe/webhook with save alone, manual-credit-update
\* and claude-diagram-generation
WebhookRoutes == {"webhook", "stripe/webhook"}

Finished == {"ignored", "failed", "credited", "refused", "served", "errored"}

InFlight == {i \in 1..Len(calls) : calls[i].pc \notin Finished}

\* a request arrives while fewer than `limit` requests are being handled
Arrives(call, limit) ==
  /\ Len(calls) < MaxCalls
  /\ Cardinality(InFlight) < limit
  /\ calls' = Append(calls, call)
  /\ UNCHANGED <<wordCountBalance, ledger, handled, idVars, clientVars, normVars, layoutVars>>

NewCall(route, user) ==
  [route |-> route, user |-> user, pc |-> "received", read |-> 0,
   atStart |-> wordCountBalance]

\* Stripe delivers checkout.session.completed for the session (again)
Deliver(limit) ==
  \E route \in WebhookRoutes : Arrives(NewCall(route, NoUser), limit)

\* a signed-in user posts the session id to manual-credit-update
ManualCall(limit) ==
  \E u \in Users : Arrives(NewCall("manual-credit-update", u), limit)

\* a signed-in user posts a prompt to claude-diagram-generation
GenerateCall(limit) ==
  \E u \in Users : Arrives(NewCall("claude-diagram-generation", u), limit)

Paid(s) == s.status \in {"paid", "no_payment_required"}

\* one step of the request i: its record becomes `call`, the balances `balances`
\* and the history `history`
Proceeds(i, call, balances, history) ==
  /\ calls' = [calls EXCEPT ![i] = call]
  /\ wordCountBalance' = balances
  /\ ledger' = history
  /\ UNCHANGED <<handled, idVars, clientVars, normVars, layoutVars>>

Credited == [ledger EXCEPT !.credited = @ + 1]

\* POST and handleSuccessfulPayment up to the lookups: an unpaid session is
\* acknowledged and nothing else; no user found throws, and POST swallows it
WebhookFindsUser ==
  \E i \in InFlight :
    LET c == calls[i] IN
    /\ c.route \in WebhookRoutes
    /\ c.pc = "received"
    /\ IF ~Paid(ledger.session)
         THEN Proceeds(i, [c EXCEPT !.pc = "ignored"], wordCountBalance, ledger)
         ELSE IF ledger.session.user = NoUser
           THEN Proceeds(i, [c EXCEPT !.pc = "failed"], wordCountBalance, ledger)
           ELSE Proceeds(i, [c EXCEPT !.pc = "found", !.user = ledger.session.user,
                                      !.read = wordCountBalance[ledger.session.user]],
                         wordCountBalance, ledger)

\* User.updateOne({ _id }, { $inc: { wordCountBalance: purchasedCredits } })
WebhookIncrements ==
  \E i \in InFlight :
    LET c == calls[i] IN
    /\ c.route = "webhook"
    /\ c.pc = "found"
    /\ Proceeds(i, [c EXCEPT !.pc = "incremented"],
                [wordCountBalance EXCEPT ![c.user] = @ + ledger.session.credits], ledger)

\* variant: save() adds the credits of the document to the stored value
SavedOnTop(c, balances) == balances[c.user] + ledger.session.credits

\* user.wordCountBalance += credits; ...; await user.save(): the stored value
\* becomes the value that was read plus the credits
SavedBalance(c, balances) == c.read + ledger.session.credits

\* await user.save() of a webhook handler
WebhookSaves ==
  \E i \in InFlight :
    LET c == calls[i] IN
    /\ \/ c.route = "webhook" /\ c.pc = "incremented"
       \/ c.route = "stripe/webhook" /\ c.pc = "found"
    /\ Proceeds(i, [c EXCEPT !.pc = "credited"],
                [wordCountBalance EXCEPT ![c.user] = SavedBalance(c, wordCountBalance)],
                Credited)

\* manual-credit-update up to User.findOne({ clerkId }): the session is
\* retrieved from Stripe and refused unless it is paid
ManualFindsUser ==
  \E i \in InFlight :
    LET c == calls[i] IN
    /\ c.route = "manual-credit-update"
    /\ c.pc = "received"
    /\ IF ~Paid(ledger.session)
         THEN Proceeds(i, [c EXCEPT !.pc = "refused"], wordCountBalance, ledger)
         ELSE Proceeds(i, [c EXCEPT !.pc = "found", !.read = wordCountBalance[c.user]],
                       wordCountBalance, ledger)

\* user.wordCountBalance += creditsToAdd; await user.save()
ManualSaves ==
  \E i \in InFlight :
    LET c == calls[i] IN
    /\ c.route = "manual-credit-update"
    /\ c.pc = "found"
    /\ Proceeds(i, [c EXCEPT !.pc = "credited"],
                [wordCountBalance EXCEPT ![c.user] = SavedBalance(c, wordCountBalance)],
                Credited)

\* User.findOne({ clerkId }) and the check `user.wordCountBalance < 2000`
GenerateChecks ==
  \E i \in InFlight :
    LET c == calls[i]
        seen == wordCountBalance[c.user]
    IN /\ c.route = "claude-diagram-generation"
       /\ c.pc = "received"
       /\ Proceeds(i, [c EXCEPT !.pc = IF seen < GenerationCost THEN "refused" ELSE "checked",
                                !.read = seen],
                   wordCountBalance, ledger)

\* the reply of Claude arrived and was parsed:
\* User.findByIdAndUpdate(user._id, { $inc: { wordCountBalance: -2000 } })
GenerateDeducts ==
  \E i \in InFlight :
    LET c == calls[i] IN
    /\ c.route = "claude-diagram-generation"
    /\ c.pc = "checked"
    /\ Proceeds(i, [c EXCEPT !.pc = "served"],
                [wordCountBalance EXCEPT ![c.user] = @ - GenerationCost], ledger)

\* the call to Claude failed: the route answers with an error, nothing is deducted
GenerateFails ==
  \E i \in InFlight :
    LET c == calls[i] IN
    /\ c.route = "claude-diagram-generation"
    /\ c.pc = "checked"
    /\ Proceeds(i, [c EXCEPT !.pc = "errored"], wordCountBalance, ledger)

\* the users start with any of the opening balances; the run is about one
\* checkout session
CreditInit ==
  /\ CanvasInit
  /\ NormIdle
  /\ LayoutIdle
  /\ \E b \in [Users -> OpeningBalances] : \E s \in Sessions :
       /\ wordCountBalance = b
       /\ ledger = [session |-> s, opening |-> b, credited |-> 0]
  /\ calls = <<>>
  /\ Uncounted
  /\ IdIdle

\* Payments, one request at a time: webhook deliveries and manual updates.
PaymentNext ==
  \/ Deliver(1)
  \/ ManualCall(1)
  \/ WebhookFindsUser
  \/ WebhookIncrements
  \/ WebhookSaves
  \/ ManualFindsUser
  \/ ManualSaves

PaymentSpec == CreditInit /\ [][PaymentNext]_vars

\* Generations and top-ups, handled concurrently.
CreditNext ==
  \/ Deliver(MaxCalls)
  \/ GenerateCall(MaxCalls)
  \/ WebhookFindsUser
  \/ WebhookIncrements
  \/ WebhookSaves
  \/ GenerateChecks
  \/ GenerateDeducts
  \/ GenerateFails

CreditSpec == CreditInit /\ [][CreditNext]_vars

\* ------------------------------------------ generation route: the response

\* entries of a "nodes" array: null, or an object with optional id, text, type
NullNode == [isNull |-> TRUE, id |-> Missing, text |-> Missing, type |-> Missing]

NodeIn(id, text, type) == [isNull |-> FALSE, id |-> id, text |-> text, type |-> type]

NodeEntries ==
  {NullNode,
   NodeIn("a", "T", "decision"),
   NodeIn("2", "T", "start"),
   NodeIn("node2", Missing, Missing),
   NodeIn(Missing, Missing, Missing)}

\* entries of a "connections" array: null, or an object naming its ends by
\* from/to, sourceId/targetId or source/target
NullConn ==
  [isNull |-> TRUE, from |-> Missing, sourceId |-> Missing, source |-> Missing,
   to |-> Missing, targetId |-> Missing, target |-> Missing, label |-> Missing]

ConnIn(style, s, t, label) ==
  [isNull |-> FALSE,
   from |-> IF style = "from" THEN s ELSE Missing,
   sourceId |-> IF style = "sourceId" THEN s ELSE Missing,
   source |-> IF style = "source" THEN s ELSE Missing,
   to |-> IF style = "from" THEN t ELSE Missing,
   targetId |-> IF style = "sourceId" THEN t ELSE Missing,
   target |-> IF style = "source" THEN t ELSE Missing,
   label |-> label]

\* original ids, a new-scheme id, numbers inside and outside the node list, an
\* unknown name, and no value
Endpoints == {"a", "node2", "1", "2", "9", "zz", Missing}

ConnEntries ==
  {NullConn}
    \cup {ConnIn("from", e, e, Missing) : e \in Endpoints}
    \cup {ConnIn(st, "a", "node2", "Yes") : st \in {"sourceId", "source"}}
    \cup {[ConnIn("from", "a", "1", Missing) EXCEPT !.sourceId = "zz", !.target = "zz"]}

SeqsUpTo(S, n) == UNION {[1..k -> S] : k \in 0..n}

NodeLists == {ListOf(l) : l \in SeqsUpTo(NodeEntries, MaxNodesIn)}

ConnLists == {ListOf(l) : l \in SeqsUpTo(ConnEntries, MaxConnsIn)}

\* What the model replied and how it was asked.  kind: "null" (the text null),
\* "empty" ({}), "text" (prose without any {...}), "broken" (a {...} that stays
\* unparsable after the clean-up), "fragments" (unparsable, but with flat
\* "nodes": [...] and "connections": [...] arrays), "bare" (a JSON object with
\* both arrays at top level), "object" (a JSON object with a diagram property).
Reply(kind, mode, airbnb, nodes, connections) ==
  [kind |-> kind, diagramMode |-> mode, airbnb |-> airbnb,
   nodes |-> nodes, connections |-> connections]

Kinds == {"null", "empty", "text", "broken", "fragments", "bare", "object"}

\* The arrays a reply of kind k can carry: none when it holds no array, those of
\* a "fragments" or "bare" reply (read in diagram mode only), and for a diagram
\* object also a property that is no array.
NodeListsOf(k, mode) ==
  CASE k \in {"null", "empty", "text", "broken"} -> {NoList}
    [] k \in {"fragments", "bare"} -> IF mode THEN NodeLists ELSE {ListOf(<<>>)}
    [] k = "object" -> NodeLists \cup {NoList}

ConnListsOf(k, mode) ==
  CASE k \in {"null", "empty", "text", "broken"} -> {NoList}
    [] k \in {"fragments", "bare"} -> IF mode THEN ConnLists ELSE {ListOf(<<>>)}
    [] k = "object" -> ConnLists \cup {NoList}

NormInit ==
  /\ CanvasInit
  /\ LayoutIdle
  /\ ServerIdle
  /\ \E k \in Kinds, mode \in BOOLEAN, airbnb \in BOOLEAN :
       \E n \in NodeListsOf(k, mode), c \in ConnListsOf(k, mode) :
         response = Reply(k, mode, airbnb, n, c)
  /\ suggestions = NoSuggestions
  /\ normPc = "received"

\* ------------------------------------------- generation route: the parsing

\* JSON.parse of the whole text, of the {...} match, of the cleaned match
ParseJson(resp) ==
  CASE resp.kind = "null" -> Shaped("null")
    [] resp.kind = "empty" -> Shaped("empty")
    [] resp.kind = "text" -> Shaped("analysis")
    [] resp.kind = "broken" -> Shaped("parseError")
    [] resp.kind = "fragments" -> Shaped("parseError")
    [] resp.kind = "bare" -> Shaped("bare")
    [] resp.kind = "object" -> WithDiagram(resp.nodes, resp.connections)

\* no diagram property, but the text holds both arrays: take them from the text
ExtractDiagram(resp, s) ==
  IF /\ s.shape # "diagram"
     /\ resp.kind \in {"fragments", "bare"}
     /\ resp.nodes.isArray
     /\ resp.connections.isArray
    THEN WithDiagram(resp.nodes, resp.connections)
    ELSE s

AirbnbNode(id, text, type) == NodeIn(id, text, type)

AirbnbConn(from, to, label) == ConnIn("from", from, to, label)

AirbnbDiagram ==
  WithDiagram(
    ListOf(<<AirbnbNode("start", "User Visits Airbnb", "start"),
             AirbnbNode("search", "Search for Listings", "process"),
             AirbnbNode("filters", "Apply Filters", "process"),
             AirbnbNode("listing", "View Listing Details", "process"),
             AirbnbNode("decision", "Book?", "decision"),
             AirbnbNode("booking", "Complete Booking", "process"),
             AirbnbNode("payment", "Process Payment", "process"),
             AirbnbNode("stay", "Stay at Property", "process"),
             AirbnbNode("review", "Leave Review", "process"),
             AirbnbNode("end", "End", "end")>>),
    ListOf(<<AirbnbConn("start", "search", "Enter destination"),
             AirbnbConn("search", "filters", "View results"),
             AirbnbConn("filters", "listing", "Select listing"),
             AirbnbConn("listing", "decision", "Consider booking"),
             AirbnbConn("decision", "booking", "Yes"),
             AirbnbConn("decision", "start", "No"),
             AirbnbConn("booking", "payment", "Confirm"),
             AirbnbConn("payment", "stay", "Booking confirmed"),
             AirbnbConn("stay", "review", "After stay"),
             AirbnbConn("review", "end", "Complete")>>))

\* still no diagram (or one without nodes) and the prompt mentions airbnb
AirbnbFallback(resp, s) ==
  IF (s.shape # "diagram" \/ ~s.nodes.isArray) /\ resp.airbnb
    THEN AirbnbDiagram
    ELSE s

\* the value of `suggestions` after the parsing try-block; reading
\* suggestions.diagram of null throws, and the outer catch takes over
ParseResponse(resp) ==
  LET parsed == ParseJson(resp)
  IN IF ~resp.diagramMode THEN parsed
     ELSE IF parsed.shape = "null" THEN Shaped("parseError")
     ELSE AirbnbFallback(resp, ExtractDiagram(resp, parsed))

\* -------------------------------------- generation route: the normalization

\* variant: the normalization block entered for every value of suggestions
ShouldNormalizeAlways(s) == TRUE

\* the guard of the normalization block
ShouldNormalize(s) ==
  /\ s.shape \notin {"undefined", "null"}
  /\ s.shape = "diagram"
  /\ s.nodes.isArray

\* .filter(...) dropping null and undefined entries
Surviving(items) == SelectSeq(items, LAMBDA e : ~e.isNull)

SafeId(k) == "node" \o ToString(k)

\* variant: {...safeNode, ...node}, the input's own id wins when it has one
SafeNodeKeepsId(node, k) ==
  [id |-> IF node.id # Missing THEN node.id ELSE SafeId(k),
   originalId |-> node.id,
   text |-> IF node.text # Missing THEN node.text ELSE "Node " \o ToString(k),
   type |-> IF node.type # Missing THEN node.type ELSE "process"]

\* {...node, ...safeNode} for the k-th surviving node (k = index + 1)
SafeNode(node, k) ==
  [id |-> SafeId(k),
   originalId |-> node.id,
   text |-> IF node.text # Missing THEN node.text ELSE "Node " \o ToString(k),
   type |-> IF node.type # Missing THEN node.type ELSE "process"]

NormalizeNodes(items) ==
  LET kept == Surviving(items)
  IN [k \in 1..Len(kept) |-> SafeNode(kept[k], k)]

\* nodeIdMap: original id -> new id; a later node with the same original id
\* overwrites the earlier entry
MapHas(nodes, key) ==
  /\ key # Missing
  /\ \E k \in 1..Len(nodes) : nodes[k].originalId = key

MapGet(nodes, key) ==
  LET last == CHOOSE k \in 1..Len(nodes) :
                /\ nodes[k].originalId = key
                /\ \A j \in (k + 1)..Len(nodes) : nodes[j].originalId # key
  IN nodes[last].id

\* /^\d+$/.test(v), for the numbers the inputs can spell
IsNumeric(v) == \E i \in 0..MaxNumeric : v = ToString(i)

NodeIdSet(nodes) == {nodes[k].id : k \in 1..Len(nodes)}

\* a || b || c
FirstOf(a, b, c) == IF a # Missing THEN a ELSE IF b # Missing THEN b ELSE c

ResolveSource(raw, nodes) ==
  IF raw # Missing /\ MapHas(nodes, raw) THEN MapGet(nodes, raw)
  ELSE IF raw # Missing /\ IsNumeric(raw) THEN "node" \o raw
  ELSE IF raw \notin NodeIdSet(nodes) THEN "node1"
  ELSE raw

ResolveTarget(raw, nodes) ==
  IF raw # Missing /\ MapHas(nodes, raw) THEN MapGet(nodes, raw)
  ELSE IF raw # Missing /\ IsNumeric(raw) THEN "node" \o raw
  ELSE IF raw \notin NodeIdSet(nodes) /\ Len(nodes) > 1 THEN "node2"
  ELSE IF raw \notin NodeIdSet(nodes) THEN "node1"
  ELSE raw

ConnOut(id, s, t, os, ot, label) ==
  [id |-> id, sourceId |-> s, targetId |-> t,
   originalSource |-> os, originalTarget |-> ot, label |-> label]

\* safeConn for the k-th surviving connection (k = index + 1)
SafeConn(conn, k, nodes) ==
  LET src == FirstOf(conn.from, conn.sourceId, conn.source)
      tgt == FirstOf(conn.to, conn.targetId, conn.target)
  IN ConnOut("conn" \o ToString(k), ResolveSource(src, nodes), ResolveTarget(tgt, nodes),
             src, tgt, IF conn.label # Missing THEN conn.label ELSE "")

\* the chain node1 -> node2 -> ... -> node n
Chain(n) ==
  [i \in 1..(n - 1) |->
     ConnOut("conn" \o ToString(i), SafeId(i), SafeId(i + 1), Missing, Missing, "")]

NormalizeConnections(connections, nodes) ==
  IF connections.isArray
    THEN LET kept == Surviving(connections.items)
         IN [k \in 1..Len(kept) |-> SafeConn(kept[k], k, nodes)]
    ELSE IF Len(nodes) > 1 THEN Chain(Len(nodes)) ELSE <<>>

NodeOut(id, text, type) ==
  [id |-> id, originalId |-> Missing, text |-> text, type |-> type]

FallbackNodes ==
  <<NodeOut("node1", "Start", "start"),
    NodeOut("node2", "Process", "process"),
    NodeOut("node3", "End", "end")>>

FallbackConnections ==
  <<ConnOut("conn1", "node1", "node2", Missing, Missing, "Start"),
    ConnOut("conn2", "node2", "node3", Missing, Missing, "End")>>

\* variant: an empty node list is passed on as it is
EmptyNodeKept(d) == d

\* "Ensure we have at least one node and connection for the fallback case"
EmptyNodeFallback(d) ==
  IF Len(d.nodes.items) = 0
    THEN WithDiagram(ListOf(FallbackNodes), ListOf(FallbackConnections))
    ELSE d

NormalizeDiagram(s) ==
  LET nodes == NormalizeNodes(s.nodes.items)
      conns == NormalizeConnections(s.connections, nodes)
  IN EmptyNodeFallback(WithDiagram(ListOf(nodes), ListOf(conns)))

\* the route's parsing try-block
ParseSuggestions ==
  /\ normPc = "received"
  /\ suggestions' = ParseResponse(response)
  /\ normPc' = "parsed"
  /\ UNCHANGED <<response, editorVars, layoutVars>>

\* "Process the response before sending it to ensure nodes have IDs"
NormalizeSuggestions ==
  /\ normPc = "parsed"
  /\ suggestions' = IF ShouldNormalize(suggestions)
                      THEN NormalizeDiagram(suggestions)
                      ELSE suggestions
  /\ normPc' = "done"
  /\ UNCHANGED <<response, editorVars, layoutVars>>

\* One reply of the model through the route, for every reply of Responses.
NormNext ==
  \/ ParseSuggestions
  \/ NormalizeSuggestions

NormSpec == NormInit /\ [][NormNext]_vars

\* ------------------------------------------------- layout: the diagram data

\* Node k of the diagram (k-th in the nodes array) has id k; it is of type
\* 'decision' when k = d.decision and of type 'process' otherwise.
NodeType(d, k) == IF k = d.decision THEN "decision" ELSE "process"

Conn(s, t, label) == [sourceId |-> s, targetId |-> t, label |-> label]

PairLess(a, b) == a[1] < b[1] \/ (a[1] = b[1] /\ a[2] < b[2])

RECURSIVE SortedPairs(_)
SortedPairs(S) ==
  IF S = {} THEN <<>>
  ELSE LET least == CHOOSE a \in S : \A b \in S \ {a} : PairLess(a, b)
       IN <<least>> \o SortedPairs(S \ {least})

Reverse(seq) == [i \in 1..Len(seq) |-> seq[Len(seq) + 1 - i]]

\* connection labels: none, or "Yes"/"No" alternating along the array
LabelAt(scheme, k) ==
  CASE scheme = "none" -> ""
    [] scheme = "yesno" -> IF k % 2 = 1 THEN "Yes" ELSE "No"
    [] scheme = "noyes" -> IF k % 2 = 1 THEN "No" ELSE "Yes"

\* the connections array for a set of (source, target) pairs
ConnectionsOfPairs(pairs, order, scheme) ==
  LET asc == SortedPairs(pairs)
      seq == IF order = "asc" THEN asc ELSE Reverse(asc)
  IN [k \in 1..Len(seq) |-> Conn(seq[k][1], seq[k][2], LabelAt(scheme, k))]

EdgeSets(n) ==
  {e \in SUBSET ((1..n) \X (1..n)) : Cardinality(e) <= MaxLayoutConns}

\* a node's type matters only when it has two or more outgoing connections
DecisionChoices(n, e) ==
  {0} \cup {v \in 1..n : Cardinality({p \in e : p[1] = v}) >= 2}

LabelSchemes(decision) ==
  IF decision = 0 THEN {"none"} ELSE {"none", "yesno", "noyes"}

\* widths of the canvas rectangle (getCanvasRect().width)
CanvasRectWidths == {NarrowRect, WideRect}

LayoutInit ==
  /\ CanvasInit
  /\ NormIdle
  /\ ServerIdle
  /\ \E n \in 1..MaxLayoutNodes, w \in CanvasRectWidths, order \in {"asc", "desc"} :
       \E e \in EdgeSets(n) :
         \E dec \in DecisionChoices(n, e) :
           \E scheme \in LabelSchemes(dec) :
             diagram = [n |-> n, decision |-> dec,
                        connections |-> ConnectionsOfPairs(e, order, scheme),
                        width |-> w]
  /\ placed = NoPlacement
  /\ layoutPc = "ready"
  /\ branch = NoBranch
  /\ spans = <<>>

\* ------------------------------------------- layout: adjacency, roots, levels

\* nodeOutgoing.get(id) and nodeIncoming.get(id), in connection order
Outgoing(d, id) == SelectSeq(d.connections, LAMBDA c : c.sourceId = id)

Incoming(d, id) == SelectSeq(d.connections, LAMBDA c : c.targetId = id)

NodeSeq(d) == [k \in 1..d.n |-> k]

\* variant: when every node has an incoming connection, no root is forced
RootNodesUnforced(d) == SelectSeq(NodeSeq(d), LAMBDA k : Len(Incoming(d, k)) = 0)

\* nodes without incoming connection; if there is none, the first node
RootNodes(d) ==
  LET roots == SelectSeq(NodeSeq(d), LAMBDA k : Len(Incoming(d, k)) = 0)
  IN IF Len(roots) = 0 /\ d.n > 0 THEN <<1>> ELSE roots

\* variant: the children are put in front of the queue (depth first)
EnqueueFront(queue, children) == children \o queue

\* queue.push(...) for every outgoing connection of the node taken off the queue
Enqueue(queue, children) == queue \o children

\* the while-loop over the queue: bfs.level maps the visited ids to their
\* level, bfs.order lists them in the order of their visit
RECURSIVE Traverse(_, _, _)
Traverse(d, queue, bfs) ==
  IF Len(queue) = 0 THEN bfs
  ELSE LET head == Head(queue)
       IN IF head.id \in DOMAIN bfs.level
            THEN Traverse(d, Tail(queue), bfs)
            ELSE LET out == Outgoing(d, head.id)
                     children == [i \in 1..Len(out) |->
                                    [id |-> out[i].targetId, level |-> head.level + 1]]
                 IN Traverse(d, Enqueue(Tail(queue), children),
                             [level |-> bfs.level @@ (head.id :> head.level),
                              order |-> Append(bfs.order, head.id)])

Visit(d) ==
  LET roots == RootNodes(d)
  IN Traverse(d, [i \in 1..Len(roots) |-> [id |-> roots[i], level |-> 0]],
              [level |-> <<>>, order |-> <<>>])

MaxOf(S) == CHOOSE m \in S : \A x \in S : x <= m

\* Math.max(...nodeLevels.values(), 0) + 1
BottomLevel(bfs) == MaxOf({bfs.level[id] : id \in DOMAIN bfs.level} \cup {0}) + 1

\* nodeLevels after the unvisited nodes were put on the bottom level
NodeLevels(d) ==
  LET bfs == Visit(d)
  IN [k \in 1..d.n |-> IF k \in DOMAIN bfs.level THEN bfs.level[k] ELSE BottomLevel(bfs)]

\* levelNodes.get(level): visited nodes in visiting order, then the others
LevelNodes(d, level) ==
  LET bfs == Visit(d)
      rest == SelectSeq(NodeSeq(d), LAMBDA k : k \notin DOMAIN bfs.level)
      lv == NodeLevels(d)
  IN SelectSeq(bfs.order \o rest, LAMBDA k : lv[k] = level)

\* ------------------------------------------------------ layout: leaf weights

\* leafDescendants.set(id, value)
Put(memo, id, value) ==
  [k \in DOMAIN memo \cup {id} |-> IF k = id THEN value ELSE memo[k]]

\* "If no leaves (could happen in cycles), count as 1"
ForcedSum(sum) == IF sum = 0 THEN 1 ELSE sum

\* countLeafDescendants(nodeId, visited) with the leafDescendants map it writes
\* to: the result is the returned number and the map after the call
RECURSIVE CountLeafDescendants(_, _, _, _)
RECURSIVE SumChildLeaves(_, _, _, _, _, _)
CountLeafDescendants(d, nodeId, visited, memo) ==
  IF nodeId \in visited THEN [sum |-> 0, memo |-> memo]
  ELSE LET out == Outgoing(d, nodeId)
       IN IF Len(out) = 0
            THEN [sum |-> 1, memo |-> Put(memo, nodeId, 1)]
            ELSE LET r == SumChildLeaves(d, out, 1, visited \cup {nodeId}, memo, 0)
                     total == ForcedSum(r.sum)
                 IN [sum |-> total, memo |-> Put(r.memo, nodeId, total)]

\* the for-loop over the outgoing connections, each child with its own copy
\* of the visited set
SumChildLeaves(d, out, i, visited, memo, sum) ==
  IF i > Len(out) THEN [sum |-> sum, memo |-> memo]
  ELSE LET c == CountLeafDescendants(d, out[i].targetId, visited, memo)
       IN SumChildLeaves(d, out, i + 1, visited, c.memo, sum + c.sum)

\* "Count leaves starting from root nodes"
RECURSIVE CountFromRoots(_, _, _, _)
CountFromRoots(d, roots, i, memo) ==
  IF i > Len(roots) THEN memo
  ELSE CountFromRoots(d, roots, i + 1,
                      CountLeafDescendants(d, roots[i], {}, memo).memo)

\* variant: the nodes that were not counted stay without a weight
CountedLeafDescendants(d) ==
  LET memo == CountFromRoots(d, RootNodes(d), 1, <<>>)
  IN [k \in 1..d.n |-> IF k \in DOMAIN memo THEN memo[k] ELSE 0]

\* leafDescendants after the nodes that were not counted got 1
LeafDescendants(d) ==
  LET memo == CountFromRoots(d, RootNodes(d), 1, <<>>)
  IN [k \in 1..d.n |-> IF k \in DOMAIN memo THEN memo[k] ELSE 1]

\* ------------------------------------------------ layout: horizontal places

\* Horizontal coordinates are JavaScript numbers and take fractional values;
\* they are kept as integers in units of 1/Scale, which every divisor that
\* occurs (twice a sum of leaf weights, a child count plus one) divides.
Scale == 2 * 2520

Max(a, b) == IF a > b THEN a ELSE b

RECURSIVE SumSeq(_)
SumSeq(seq) == IF Len(seq) = 0 THEN 0 ELSE Head(seq) + SumSeq(Tail(seq))

\* the sum of the first i - 1 entries
SumBefore(seq, i) == SumSeq(SubSeq(seq, 1, i - 1))

\* label.toLowerCase().includes('yes') || ...includes('true'), and the same
\* for 'no' and 'false', over the labels of the diagrams
SaysYes(label) == label \in {"Yes"}

SaysNo(label) == label \in {"No"}

\* the roots side by side, each as wide as its share of canvasWidth - 200
RootPlaces(d, weights) ==
  LET roots == RootNodes(d)
      w == [i \in 1..Len(roots) |-> weights[roots[i]]]
      total == SumSeq(w)
  IN [i \in 1..Len(roots) |->
        [id |-> roots[i],
         x |-> Scale * LayoutMargin
                 + (Scale * (d.width - SideMargins) * (2 * SumBefore(w, i) + w[i]))
                     \div (2 * total)]]

\* nodes of a level without parent on a higher level, spread evenly
EvenPlaces(d, ids) ==
  [i \in 1..Len(ids) |->
     [id |-> ids[i],
      x |-> Scale * LayoutMargin
              + (Scale * (d.width - SideMargins) * i) \div (Len(ids) + 1)]]

\* a decision parent with two children: x-centres at both sides of the parent
YesNoSpans(parentX, weights, labels) ==
  LET swap == /\ ~(SaysYes(labels[1]) /\ SaysNo(labels[2]))
              /\ SaysYes(labels[2]) /\ SaysNo(labels[1])
      left == IF swap THEN 2 ELSE 1
      right == IF swap THEN 1 ELSE 2
      branchSpacing == Max(MinBranchSpacing,
                           weights[left] * BranchUnit + weights[right] * BranchUnit)
  IN [i \in 1..2 |->
        [x |-> IF i = left THEN parentX - (Scale * branchSpacing) \div 2
                           ELSE parentX + (Scale * branchSpacing) \div 2,
         width |-> 0]]

\* children side by side from parentX - totalWidth / 2 on, each as wide as its
\* share of totalWidth, with gap between two neighbours
SharedSpans(parentX, weights, totalWidth, gap) ==
  LET totalLeaves == SumSeq(weights)
      childWidth == [i \in 1..Len(weights) |->
                       (Max(1, weights[i]) * totalWidth * Scale) \div totalLeaves]
  IN [i \in 1..Len(weights) |->
        [x |-> parentX - (Scale * totalWidth) \div 2
                 + SumBefore(childWidth, i) + Scale * gap * (i - 1)
                 + childWidth[i] \div 2,
         width |-> childWidth[i]]]

MinWidthPerChild(count) == IF count <= 2 THEN FewChildMin ELSE ManyChildMin

\* "Position children under their parent": the x-centre of each child and the
\* width allotted to it
ChildSpans(parentX, isDecision, weights, labels) ==
  LET count == Len(weights)
  IN IF isDecision /\ count = 2
       THEN YesNoSpans(parentX, weights, labels)
       ELSE IF isDecision /\ count > 2
         THEN SharedSpans(parentX, weights,
                          Max(DecisionChildMin * count, SumSeq(weights) * DecisionLeafWidth),
                          DecisionGap)
         ELSE SharedSpans(parentX, weights,
                          Max(MinWidthPerChild(count) * count, SumSeq(weights) * LeafWidth),
                          0)

\* the parents of a node that lie on a higher level, in connection order
HigherLevelParents(d, levels, id, level) ==
  LET parents == SelectSeq(Incoming(d, id), LAMBDA c : levels[c.sourceId] < level)
  IN [i \in 1..Len(parents) |-> parents[i].sourceId]

\* every (parent, child) pair of a level, in the order the loops meet them
RECURSIVE ParentRefs(_, _, _, _)
ParentRefs(d, levels, ids, level) ==
  IF Len(ids) = 0 THEN <<>>
  ELSE LET parents == HigherLevelParents(d, levels, Head(ids), level)
       IN [i \in 1..Len(parents) |-> [parent |-> parents[i], child |-> Head(ids)]]
            \o ParentRefs(d, levels, Tail(ids), level)

\* the keys of nodesByParent in insertion order
RECURSIVE FirstSeen(_, _)
FirstSeen(seq, seen) ==
  IF Len(seq) = 0 THEN <<>>
  ELSE IF Head(seq) \in seen THEN FirstSeen(Tail(seq), seen)
  ELSE <<Head(seq)>> \o FirstSeen(Tail(seq), seen \cup {Head(seq)})

\* nodeHorizontalPositions.set(...) for a list of places, one after the other
RECURSIVE SetPlaces(_, _)
SetPlaces(xs, places) ==
  IF Len(places) = 0 THEN xs
  ELSE SetPlaces(Put(xs, Head(places).id, Head(places).x), Tail(places))

\* the label of the parent's first connection to the child, '' if there is none
LabelTo(d, parent, child) ==
  LET conns == SelectSeq(Outgoing(d, parent), LAMBDA c : c.targetId = child)
  IN IF Len(conns) = 0 THEN "" ELSE Head(conns).label

\* the children of one parent on one level
PlacesUnder(d, weights, xs, parent, children) ==
  LET alloc == ChildSpans(xs[parent], NodeType(d, parent) = "decision",
                          [i \in 1..Len(children) |-> weights[children[i]]],
                          [i \in 1..Len(children) |-> LabelTo(d, parent, children[i])])
  IN [i \in 1..Len(children) |-> [id |-> children[i], x |-> alloc[i].x]]

RECURSIVE PlaceGroups(_, _, _, _, _)
PlaceGroups(d, weights, xs, refs, parents) ==
  IF Len(parents) = 0 THEN xs
  ELSE LET mine == SelectSeq(refs, LAMBDA r : r.parent = Head(parents))
           children == [i \in 1..Len(mine) |-> mine[i].child]
       IN PlaceGroups(d, weights,
                      SetPlaces(xs, PlacesUnder(d, weights, xs, Head(parents), children)),
                      refs, Tail(parents))

\* one pass of the loop over the levels: the group without parent first, then
\* the groups of the parents
PlaceLevel(d, levels, weights, xs, level) ==
  LET ids == LevelNodes(d, level)
      orphans == SelectSeq(ids, LAMBDA k : Len(HigherLevelParents(d, levels, k, level)) = 0)
      refs == ParentRefs(d, levels, ids, level)
      parents == FirstSeen([i \in 1..Len(refs) |-> refs[i].parent], {})
  IN PlaceGroups(d, weights, SetPlaces(xs, EvenPlaces(d, orphans)), refs, parents)

RECURSIVE PlaceLevels(_, _, _, _, _, _)
PlaceLevels(d, levels, weights, xs, level, maxLevel) ==
  IF level > maxLevel THEN xs
  ELSE PlaceLevels(d, levels, weights, PlaceLevel(d, levels, weights, xs, level),
                   level + 1, maxLevel)

\* nodeHorizontalPositions at the end of the loop over the levels
HorizontalPositions(d) ==
  LET levels == NodeLevels(d)
      weights == LeafDescendants(d)
  IN PlaceLevels(d, levels, weights, SetPlaces(<<>>, RootPlaces(d, weights)), 1,
                 MaxOf({levels[k] : k \in 1..d.n}))

\* ------------------------------------------- layout: positions and bounds

\* variant: a position is used as it is, zero included
SetX(xs, k) == IF k \in DOMAIN xs THEN xs[k] ELSE Scale * DefaultX

\* nodeHorizontalPositions.get(nodeId) || 100
XOrDefault(xs, k) ==
  IF k \in DOMAIN xs /\ xs[k] # 0 THEN xs[k] ELSE Scale * DefaultX

\* the top-left corner of every node
NodePositions(d) ==
  LET levels == NodeLevels(d)
      xs == HorizontalPositions(d)
  IN [k \in 1..d.n |->
        [x |-> XOrDefault(xs, k) - Scale * HalfNodeWidth,
         y |-> LevelTop + levels[k] * LevelHeight - HalfNodeHeight]]

MinOf(S) == CHOOSE m \in S : \A x \in S : m <= x

\* diagramWidth
DiagramWidth(positions) ==
  LET left == {positions[k].x : k \in DOMAIN positions}
      right == {positions[k].x + Scale * NodeWidth : k \in DOMAIN positions}
  IN Max(Scale * MinCanvas, MaxOf(right) - MinOf(left) + 2 * Scale * Padding)

\* diagramHeight
DiagramHeight(positions) ==
  LET top == {positions[k].y : k \in DOMAIN positions}
      bottom == {positions[k].y + NodeHeight : k \in DOMAIN positions}
  IN Max(MinCanvas, MaxOf(bottom) - MinOf(top) + 2 * Padding)

\* the layout part of createDiagramFromResponse
LayoutDiagram ==
  /\ layoutPc = "ready"
  /\ placed' = [levels |-> NodeLevels(diagram),
                weights |-> LeafDescendants(diagram),
                xs |-> HorizontalPositions(diagram),
                positions |-> NodePositions(diagram),
                canvasWidth |-> DiagramWidth(NodePositions(diagram)),
                canvasHeight |-> DiagramHeight(NodePositions(diagram))]
  /\ layoutPc' = "done"
  /\ UNCHANGED <<diagram, branch, spans, editorVars, normVars>>

LayoutNext == LayoutDiagram

\* One diagram through the layout, for every diagram of the bounds.
LayoutSpec == LayoutInit /\ [][LayoutNext]_vars

\* ------------------------------------- layout: the children of one parent

WeightLists ==
  UNION {[1..count -> 1..MaxWeight] : count \in 1..MaxChildren}

\* one parent at parentX and the leaf weights of its children on the next level
BranchInit ==
  /\ CanvasInit
  /\ NormIdle
  /\ ServerIdle
  /\ diagram = NoDiagramData
  /\ placed = NoPlacement
  /\ layoutPc = "children"
  /\ \E steps \in 1..MaxParentSteps, isDecision \in BOOLEAN, weights \in WeightLists :
       branch = [parentX |-> Scale * ParentStep * steps,
                 isDecision |-> isDecision,
                 weights |-> weights]
  /\ spans = <<>>

\* the body of nodesByParent.forEach for one parent
PlaceChildren ==
  /\ layoutPc = "children"
  /\ spans' = ChildSpans(branch.parentX, branch.isDecision, branch.weights,
                         [i \in 1..Len(branch.weights) |-> ""])
  /\ layoutPc' = "placed"
  /\ UNCHANGED <<diagram, placed, branch, editorVars, normVars>>

BranchNext == PlaceChildren

\* The children of one parent, for every list of leaf weights of the bounds.
BranchSpec == BranchInit /\ [][BranchNext]_vars

\* ------------------------------------------------------- canvas properties

\* nothing is pending: no save request in flight and no auto-save timer armed
Quiescent ==
  /\ inflightAuto = 0
  /\ inflightDirect = 0
  /\ saveTimer = NoTimer

\* C1: when the canvas state was replaced through updateCanvasState while an
\* auto-save request was in flight, then once every save request has completed
\* and no timer is pending, the last snapshot handed to the persistence
\* collaborator is the snapshot of the state now in memory.
C1_FollowUpSave ==
  (Quiescent /\ dirtiedInFlight) => lastSent = "current"

\* C2: every step that changes the canvas elements (addNode, connection draw,
\* replace or clear through setCanvasState, node drag) leaves isDirty true.
C2_MutationMarksDirty ==
  [][elements' # elements => isDirty']_vars

\* C3: a burst of mutations is followed by exactly one auto-save call: after the
\* last mutation the timer callback does not call onSave a second time.
C3_OneSavePerBurst ==
  savesSinceMut <= 1

\* C4: at most one AI-generation request for the canvas is in flight, whichever
\* entry point (toolbar or chat) started it.
C4_SingleGeneration ==
  ~(toolbarReq # "none" /\ chatReq # "none")

\* C5: in every reachable canvas state each connection's sourceId and targetId
\* are ids of nodes of the same state.
C5_EndpointsExist ==
  \A i \in 1..Len(elements) :
    elements[i].type = "connection" =>
      /\ elements[i].sourceId \in NodeIds(elements)
      /\ elements[i].targetId \in NodeIds(elements)

\* ---------------------------------------------------- normalizer properties

\* what the parsing stage hands to the normalization block for this reply
Parsed == ParseResponse(response)

Malformed == response.kind \in {"null", "empty", "text", "broken"}

FallbackDiagram == WithDiagram(ListOf(FallbackNodes), ListOf(FallbackConnections))

C7_EndpointsResolve ==
  (normPc = "done" /\ ShouldNormalize(Parsed)) =>
    \A i \in 1..Len(suggestions.connections.items) :
      /\ suggestions.connections.items[i].sourceId \in NodeIdSet(suggestions.nodes.items)
      /\ suggestions.connections.items[i].targetId \in NodeIdSet(suggestions.nodes.items)

\* C8: when no node survives the dropping of null entries, the normalized
\* diagram is the fixed three nodes with the chain node1 -> node2 -> node3, and
\* a normalized node list is never empty.
C8_EmptyNodeFallback ==
  (normPc = "done" /\ ShouldNormalize(Parsed)) =>
    /\ Len(suggestions.nodes.items) > 0
    /\ Len(Surviving(Parsed.nodes.items)) = 0 => suggestions = FallbackDiagram

C8_Witness ==
  /\ normPc = "done"
  /\ response.kind = "object"
  /\ response.nodes.isArray
  /\ Len(response.nodes.items) > 0
  /\ \A i \in 1..Len(response.nodes.items) : response.nodes.items[i].isNull
  /\ suggestions = FallbackDiagram

NoConnectionSurvives(d) ==
  \/ ~d.connections.isArray
  \/ Len(Surviving(d.connections.items)) = 0

\* C9: when no connection survives (the list missing, empty or all null) and
\* at least two nodes do, the output connections are the chain
\* node1 -> node2 -> ... -> nodeN.
C9_ChainWhenNoConnection ==
  (/\ normPc = "done"
   /\ ShouldNormalize(Parsed)
   /\ Len(Surviving(Parsed.nodes.items)) >= 2
   /\ NoConnectionSurvives(Parsed)) =>
    /\ Len(suggestions.connections.items) = Len(suggestions.nodes.items) - 1
    /\ \A i \in 1..Len(suggestions.connections.items) :
         /\ suggestions.connections.items[i].sourceId = "node" \o ToString(i)
         /\ suggestions.connections.items[i].targetId = "node" \o ToString(i + 1)

\* C10: after normalization the k-th node has id node{k}; when input nodes
\* survive, the k-th output node is the k-th surviving input node and keeps the
\* input's id as originalId.
C10_SequentialIds ==
  (normPc = "done" /\ ShouldNormalize(Parsed)) =>
    LET kept == Surviving(Parsed.nodes.items)
        out == suggestions.nodes.items
    IN /\ \A k \in 1..Len(out) : out[k].id = "node" \o ToString(k)
       /\ Len(kept) > 0 =>
            /\ Len(out) = Len(kept)
            /\ \A k \in 1..Len(out) : out[k].originalId = kept[k].id

\* a null entry dropped, and an input id that collides with the node{n} scheme
C10_Witness ==
  /\ normPc = "done"
  /\ response.kind = "object"
  /\ Len(response.nodes.items) = 2
  /\ response.nodes.items[1].isNull
  /\ response.nodes.items[2].id = "node2"
  /\ suggestions.nodes.items[1].id = "node1"
  /\ suggestions.nodes.items[1].originalId = "node2"

\* ------------------------------------------------------- layout properties

Laid == layoutPc = "done"

Successors(d, S) == {c.targetId : c \in {d.connections[i] : i \in
                       {j \in 1..Len(d.connections) : d.connections[j].sourceId \in S}}}

RECURSIVE Closure(_, _)
Closure(d, S) ==
  IF Successors(d, S) \subseteq S THEN S ELSE Closure(d, S \cup Successors(d, S))

\* the nodes reachable from k along one or more connections
Descendants(d, k) == Closure(d, Successors(d, {k}))

OnCycle(d, k) == k \in Descendants(d, k)

\* C11: countLeafDescendants returns on every graph, cyclic ones included, and
\* every node of a laid out diagram has a leaf weight that is an integer of at
\* least 1.
C11_LeafWeightAtLeastOne ==
  Laid => /\ DOMAIN placed.weights = 1..diagram.n
          /\ \A k \in 1..diagram.n : placed.weights[k] \in Nat /\ placed.weights[k] >= 1

\* a laid out diagram with a self-loop and a longer cycle
C11_Witness ==
  /\ Laid
  /\ \E k \in 1..diagram.n : k \in Successors(diagram, {k})
  /\ \E k \in 1..diagram.n :
       OnCycle(diagram, k) /\ k \notin Successors(diagram, {k}) /\ placed.weights[k] >= 1

\* the nodes without incoming connection
Sources(d) == {k \in 1..d.n : Len(Incoming(d, k)) = 0}

\* the roots of the traversal as the specification names them: the nodes
\* without incoming connection, or the first node if there is none
Roots(d) == IF Sources(d) = {} THEN {1} ELSE Sources(d)

\* the length of a shortest path from a node of the frontier to k, where the
\* frontier is n connections away from the roots; -1 if there is no path
RECURSIVE Distance(_, _, _, _, _)
Distance(d, frontier, seen, k, n) ==
  IF k \in frontier THEN n
  ELSE IF frontier = {} THEN -1
  ELSE Distance(d, Successors(d, frontier) \ seen,
                seen \cup Successors(d, frontier), k, n + 1)

ShortestPath(d, k) == Distance(d, Roots(d), Roots(d), k, 0)

Reached(d) == {k \in 1..d.n : ShortestPath(d, k) >= 0}

\* C12: the level of a node that can be reached from a root is the length of a
\* shortest path from any root to it, and the nodes that cannot be reached are
\* all on the level below the deepest reached one.
C12_LevelIsShortestPath ==
  Laid => \A k \in 1..diagram.n :
            IF k \in Reached(diagram)
              THEN placed.levels[k] = ShortestPath(diagram, k)
              ELSE placed.levels[k] =
                     MaxOf({ShortestPath(diagram, j) : j \in Reached(diagram)}) + 1

\* a node with parents on two different levels sits right below the higher one
C12_Witness ==
  /\ Laid
  /\ \E k, a, b \in 1..diagram.n :
       /\ k \in Successors(diagram, {a}) /\ k \in Successors(diagram, {b})
       /\ placed.levels[a] = 0 /\ placed.levels[b] = 1
       /\ placed.levels[k] = 1

EveryNodeHasIncoming(d) == \A k \in 1..d.n : Len(Incoming(d, k)) > 0

\* C13: when every node has an incoming connection, exactly one node is on
\* level 0, and it is the first node of the input.
C13_FirstNodeIsOnlyRoot ==
  (Laid /\ EveryNodeHasIncoming(diagram)) =>
     {k \in 1..diagram.n : placed.levels[k] = 0} = {NodeSeq(diagram)[1]}

\* a cycle through all three nodes
C13_Witness ==
  /\ Laid
  /\ diagram.n = 3
  /\ EveryNodeHasIncoming(diagram)
  /\ \A k \in 1..diagram.n : k \notin Successors(diagram, {k})
  /\ placed.levels[1] = 0

Leaves(d) == {k \in 1..d.n : Len(Outgoing(d, k)) = 0}

Acyclic(d) == \A k \in 1..d.n : ~OnCycle(d, k)

\* C14: in an acyclic diagram the leaf weight of a node is the number of
\* leaves that can be reached from it, each leaf counted once however many
\* paths lead to it; a leaf has weight 1.
C14_WeightIsReachableLeaves ==
  (Laid /\ Acyclic(diagram)) =>
     \A k \in 1..diagram.n :
       placed.weights[k] =
         IF k \in Leaves(diagram) THEN 1
         ELSE Cardinality(Descendants(diagram, k) \cap Leaves(diagram))

Parents(d, k) == {j \in 1..d.n : k \in Successors(d, {j})}

\* the x-centre of a laid out node
Centre(k) == placed.positions[k].x + Scale * HalfNodeWidth

\* p is a decision node whose two outgoing connections lead to a and to b, in
\* this order, and neither child has another parent
DecisionPair(d, p, a, b) ==
  /\ NodeType(d, p) = "decision"
  /\ Len(Outgoing(d, p)) = 2
  /\ Outgoing(d, p)[1].targetId = a /\ Outgoing(d, p)[2].targetId = b
  /\ a # b /\ a # p /\ b # p
  /\ Parents(d, a) = {p} /\ Parents(d, b) = {p}

Apart(a, b) ==
  Scale * Max(MinBranchSpacing,
              BranchUnit * placed.weights[a] + BranchUnit * placed.weights[b])

\* C15: the two children of a decision node, when neither has another parent:
\* the child of the yes-connection is strictly left of the decision node and
\* the child of the no-connection strictly right of it, whichever comes first,
\* and max(250, 100 * weight + 100 * weight) lies between their x-centres;
\* without yes/no labels the first child is left of the second.
C15_YesLeftNoRight ==
  Laid => \A p, a, b \in 1..diagram.n :
            DecisionPair(diagram, p, a, b) =>
              LET la == LabelTo(diagram, p, a)
                  lb == LabelTo(diagram, p, b)
                  yes == IF SaysYes(la) THEN a ELSE b
                  no == IF SaysYes(la) THEN b ELSE a
              IN IF (SaysYes(la) /\ SaysNo(lb)) \/ (SaysYes(lb) /\ SaysNo(la))
                   THEN /\ Centre(yes) < Centre(p)
                        /\ Centre(p) < Centre(no)
                        /\ Centre(no) - Centre(yes) = Apart(a, b)
                   ELSE Centre(a) < Centre(b)

\* the children of a non-decision parent, or more than two of a decision parent,
\* were laid out
SharedOut == layoutPc = "placed" /\ (~branch.isDecision \/ Len(branch.weights) > 2)

MinChildWidth ==
  IF branch.isDecision THEN DecisionChildMin ELSE MinWidthPerChild(Len(branch.weights))

TotalWidth == SumSeq([i \in 1..Len(spans) |-> spans[i].width])

\* C16: the children of a non-decision parent, or of a decision parent with
\* more than two children: the widths allotted to them are in the proportion of
\* their leaf weights, none is below the minimum width per child, and the
\* allotments lie side by side, left to right, inside the span of their total
\* width centred on the parent.
C16_ProportionalWithMinimum ==
  SharedOut =>
    /\ \A i, j \in 1..Len(spans) :
         spans[i].width * branch.weights[j] = spans[j].width * branch.weights[i]
    /\ \A i \in 1..Len(spans) : spans[i].width >= Scale * MinChildWidth
    /\ \A i \in 1..Len(spans) - 1 :
         2 * spans[i].x + spans[i].width <= 2 * spans[i + 1].x - spans[i + 1].width
    /\ 2 * spans[1].x - spans[1].width >= 2 * branch.parentX - TotalWidth
    /\ 2 * spans[Len(spans)].x + spans[Len(spans)].width
         <= 2 * branch.parentX + TotalWidth

\* C17: the canvas of a laid out diagram is at least 2000 by 2000 and holds
\* every node: no node starts left of 0 or above 0, and none ends right of
\* canvasWidth or below canvasHeight.
C17_CanvasHoldsEveryNode ==
  Laid =>
    /\ placed.canvasWidth >= Scale * MinCanvas
    /\ placed.canvasHeight >= MinCanvas
    /\ \A k \in 1..diagram.n :
         /\ 0 <= placed.positions[k].x
         /\ placed.positions[k].x + Scale * NodeWidth <= placed.canvasWidth
         /\ 0 <= placed.positions[k].y
         /\ placed.positions[k].y + NodeHeight <= placed.canvasHeight

\* ------------------------------------------------------ gesture properties

NodePlaces(els) ==
  {<<els[i].id, els[i].x, els[i].y>> : i \in {j \in 1..Len(els) : els[j].type = "node"}}

\* C18: after a mouse-up on the canvas no gesture is active, whatever mouse-down
\* and mouse-move events came before, and every node is where the last move
\* of a drag left it.
C18_PointerUpEndsGestures ==
  [][CanvasMouseUp =>
       /\ ~isDraggingCanvas'
       /\ ~isDraggingElement'
       /\ ~isDrawingConnection'
       /\ NodePlaces(elements') = NodePlaces(elements)]_vars

\* the pointer was over another node at the last move of a connection draw
OverNode == currentConnection.active /\ currentConnection.targetNodeId # NoId

\* C19: a mouse-up that ends a connection draw over another node appends one
\* connection, from the node of the handle to the node under the pointer, two
\* different nodes; a mouse-up that ends it anywhere else leaves the canvas
\* state as it is.
C19_DrawAddsOneConnection ==
  [][(CanvasMouseUp /\ isDrawingConnection) =>
       IF OverNode
         THEN /\ Len(elements') = Len(elements) + 1
              /\ SubSeq(elements', 1, Len(elements)) = elements
              /\ elements'[Len(elements')].type = "connection"
              /\ elements'[Len(elements')].sourceId = connectionStart
              /\ elements'[Len(elements')].targetId = currentConnection.targetNodeId
              /\ elements'[Len(elements')].sourceId # elements'[Len(elements')].targetId
         ELSE UNCHANGED <<elements, isDirty>>]_vars

\* ------------------------------------------------- save failure properties

\* nothing is left that would call onSave: the canvas is clean and no timer runs
NothingDue == ~isDirty' /\ saveTimer' = NoTimer

Unclamped(e) ==
  e.newScale = FAdd(e.scale, FMul(e.scale, IF e.deltaY > 0 THEN FNeg(ZoomSpeed)
                                                           ELSE ZoomSpeed))

\* C21: a wheel event keeps the world point under the pointer where it is: the
\* point (local / scale - view offset) computed with the scale and the offset
\* after the event is the one computed with those before it.
C21_ZoomKeepsPointerPoint ==
  \A i \in 1..Len(wheelLog) :
    WorldAt(wheelLog[i].point, wheelLog[i].newScale, wheelLog[i].newViewPosition)
      = WorldAt(wheelLog[i].point, wheelLog[i].scale, wheelLog[i].viewPosition)

\* two numbers that differ by no more than a thousandth (far more than the
\* rounding of a double)
Near(p, q) == LET d == FSub(p, q) IN Abs(d.num) * 1000 <= d.den

\* the wheel events i and i + 1 are a zoom in and a zoom out at the same point,
\* neither cut by a limit of the scale
InThenOut(i) ==
  /\ wheelLog[i].deltaY < 0
  /\ wheelLog[i + 1].deltaY > 0
  /\ wheelLog[i + 1].point = wheelLog[i].point
  /\ Unclamped(wheelLog[i])
  /\ Unclamped(wheelLog[i + 1])

\* C22: a zoom in followed at once by a zoom out at the same pointer position,
\* neither of them clamped, gives back the scale and the view offset from
\* before the zoom in, up to rounding.
C22_ZoomInThenOutRestores ==
  \A i \in 1..(Len(wheelLog) - 1) :
    InThenOut(i) =>
      /\ Near(wheelLog[i + 1].newScale, wheelLog[i].scale)
      /\ Near(wheelLog[i + 1].newViewPosition[1], wheelLog[i].viewPosition[1])
      /\ Near(wheelLog[i + 1].newViewPosition[2], wheelLog[i].viewPosition[2])

\* C23: the first node of a canvas has its centre on the world point of the
\* centre of the viewport, horizontally and vertically, with the scale and the
\* view offset of the moment.
C23_FirstNodeAtViewportCentre ==
  [][AddFirstNode =>
       /\ FAdd(elements'[1].x, R(HalfNodeWidth))
            = FSub(FDiv(Frac(ViewportW, 2), scale), viewPosition[1])
       /\ FAdd(elements'[1].y, R(HalfNodeHeight))
            = FSub(FDiv(Frac(ViewportH, 2), scale), viewPosition[2])]_vars

\* the gesture modes that are on
ActiveGestures ==
  {g \in {"canvas", "element", "connection"} :
     \/ g = "canvas" /\ isDraggingCanvas
     \/ g = "element" /\ isDraggingElement
     \/ g = "connection" /\ isDrawingConnection}

\* C27: at most one of isDraggingCanvas, isDraggingElement and
\* isDrawingConnection is true.
C27_OneGestureAtATime == Cardinality(ActiveGestures) <= 1

\* -------------------------------------------------------- sibling properties

\* no cycle, and no node with more than one incoming connection
TreeShaped(d) ==
  /\ Acyclic(d)
  /\ \A k \in 1..d.n : Len(Incoming(d, k)) <= 1

\* the i-th child of p, in the order of p's outgoing connections
Child(d, p, i) == Outgoing(d, p)[i].targetId

\* the two children of a decision node whose connections are labelled no and
\* yes, in this order: the layout puts the yes child on the left
NoThenYes(d, p) ==
  /\ NodeType(d, p) = "decision"
  /\ Len(Outgoing(d, p)) = 2
  /\ SaysNo(Outgoing(d, p)[1].label)
  /\ SaysYes(Outgoing(d, p)[2].label)

\* C30: in a tree-shaped diagram the x-centres of two children of one parent
\* are at least 200 apart, the earlier child on the left (for a decision node
\* with a no and a yes connection, the yes child on the left).
C30_SiblingsApart ==
  (Laid /\ TreeShaped(diagram)) =>
    \A p \in 1..diagram.n :
      \A i, j \in 1..Len(Outgoing(diagram, p)) :
        i < j =>
          LET left == IF NoThenYes(diagram, p) THEN Child(diagram, p, j)
                                               ELSE Child(diagram, p, i)
              right == IF NoThenYes(diagram, p) THEN Child(diagram, p, i)
                                                ELSE Child(diagram, p, j)
          IN Centre(right) - Centre(left) >= Scale * LeafWidth

\* --------------------------------------------------------- credit properties

\* the webhook request i is answered with this step
WebhookEnds(i) ==
  /\ i \in InFlight
  /\ calls[i].route \in WebhookRoutes
  /\ calls'[i].pc \in Finished

\* C25: when the handling of one checkout.session.completed event of a paid (or
\* no_payment_required) session ends, the stored balance of the user that a
\* lookup found is the balance from before the event plus the credits of the
\* session, and every other balance is what it was; with no user found, every
\* balance is what it was.
C25_WebhookAddsCredits ==
  [][\A i \in 1..Len(calls) :
       (WebhookEnds(i) /\ Paid(ledger.session)) =>
         wordCountBalance' =
           IF ledger.session.user = NoUser
             THEN calls[i].atStart
             ELSE [calls[i].atStart EXCEPT ![ledger.session.user] =
                                              @ + ledger.session.credits]]_vars

\* a delivery to the handler with updateOne and save was answered: the user was
\* found by the Stripe customer id, the session needed no payment, and the
\* balance stands the credits above where it stood
C25_Witness ==
  \E i \in 1..Len(calls) :
    /\ calls[i].route = "webhook"
    /\ calls[i].pc = "credited"
    /\ ledger.session.via = "customer"
    /\ ledger.session.status = "no_payment_required"
    /\ wordCountBalance[calls[i].user]
         = calls[i].atStart[calls[i].user] + ledger.session.credits
    /\ InFlight = {}

\* the users whose balance is not the opening balance
Grown == {u \in Users : wordCountBalance[u] # ledger.opening[u]}

\* C28: once every webhook delivery and every manual-credit-update call for the
\* session is answered, the credits of the session were added once if the
\* session was credited at all: one balance stands the credits above its
\* opening value, every other at its opening value.
C28_SessionCreditedOnce ==
  InFlight = {} =>
    IF ledger.credited = 0
      THEN Grown = {}
      ELSE \E u \in Users :
             /\ Grown = {u}
             /\ wordCountBalance[u] = ledger.opening[u] + ledger.session.credits

\* C29: no stored balance is negative, whatever generation requests and
\* top-ups are handled at the same time.
C29_BalanceNeverNegative ==
  \A u \in Users : wordCountBalance[u] >= 0

\* ---------------------------------------------------------- frame properties

\* the step is a wheel event or a mouse-move that pans the view
ViewStep ==
  \/ CanvasWheel
  \/ /\ CanvasMouseMove
     /\ isDraggingCanvas
     /\ ~(isDraggingElement /\ selectedElement # NoId)

\* the step is a mouse-move that drags the selected node
DragStep ==
  /\ CanvasMouseMove
  /\ isDraggingElement
  /\ selectedElement # NoId

\* b is a with at most another x and y
SameButPlace(a, b) == b = [a EXCEPT !.x = b.x, !.y = b.y]

\* C26: a wheel event and a panning mouse-move change the view offset and the
\* scale only: the elements, the dirty flag, the save timer and the gesture
\* state stay; every step (adding a node, pressing, moving and releasing the
\* pointer) keeps every element that was there as it was, in its place in the
\* sequence, except that a dragging mouse-move gives the selected node
\* another x and y and nothing else.
C26_OnlyWhatTheGestureIsAbout ==
  [][/\ UNCHANGED <<elements, nextId, isDirty, saveTimer, gestureVars>> \/ ~ViewStep
     /\ Len(elements') >= Len(elements)
     /\ \A i \in 1..Len(elements) :
          \/ elements'[i] = elements[i]
          \/ /\ elements[i].type = "node"
             /\ elements[i].id = selectedElement
             /\ SameButPlace(elements[i], elements'[i])
             /\ DragStep]_vars

\* two nodes, the second dragged to the canvas origin while the first stayed
\* where addNode put it, and the view zoomed afterwards
C26_Witness ==
  /\ Len(elements) = 2
  /\ elements[1] = MkNode(1, FSub(Frac(ViewportW, 2), R(HalfNodeWidth)),
                              FSub(Frac(ViewportH, 3), R(HalfNodeHeight)))
  /\ elements[2] = MkNode(2, Zero, Zero)
  /\ selectedElement = 2
  /\ isDraggingElement
  /\ Len(wheelLog) = 1
  /\ scale # One

\* ------------------------------------------------------------- id properties

\* C24: the ids of the elements on the canvas are pairwise distinct, and no
\* element on the canvas carries an id that a clear or a replace has removed.
C24_IdsDistinctAndNeverReissued ==
  /\ \A i, j \in 1..Len(liveIds) : i # j => liveIds[i] # liveIds[j]
  /\ IdsOf(liveIds) \cap retired = {}

====
